---- MODULE Spec2Model ----
(***************************************************************************)
(* Model of the game-server dashboard's Kubernetes client                  *)
(* (src/app/kubernetes/client.py): workload classification, discovery      *)
(* with namespace fallback, per-record metrics enrichment, the quantity    *)
(* parsers, the game and instance aggregation, pod and log access, and    *)
(* scaling.                                                                *)
(*                                                                         *)
(* Conventions.  A Python Optional is a set: None is {} and a present      *)
(* value v is {v}.  Names, namespaces, annotation values and the display   *)
(* strings the program produces are TLA+ strings.  Quantity strings that   *)
(* the program parses are sequences of one-character strings, so that the  *)
(* suffix tests and the numeric conversion are computed as the code does.  *)
(* An orchestrator call is one step: the environment picks its response.   *)
(***************************************************************************)
EXTENDS Integers, Sequences, FiniteSets, TLC

VARIABLES
    cluster,        \* the raw deployments the orchestrator holds, in listing order
    pc,             \* position of the request in get_deployments
    namespace,      \* the namespace argument of get_deployments (Optional[str])
    deployments,    \* the local list `deployments` (DeploymentStatus records)
    ns_items,       \* _get_accessible_namespaces: namespaces.items still to probe
    accessible_namespaces, \* _get_accessible_namespaces: the list being built
    namespaces,     \* _fetch_deployments: the resolver's return value
    ns_i,           \* _fetch_deployments: index of the next namespace to list
    dep_i,          \* get_deployments: index of the next record to enrich
    calls,          \* every orchestrator call issued, with its response
    result,         \* what the request returned or raised
    item,           \* classifier specification: the raw deployment classified
    classified,     \* classifier specification: _process_deployment_item's value
    handler,        \* the client operation the request runs, with its game_name
    served,         \* the requests answered before this one: how many entries each returned
    quantity,       \* parser specification: the quantity string parsed
    parsed,         \* parser specification: what the two parsers made of it
    pods,           \* the pods the orchestrator holds for the request's target
    container,      \* get_pod_logs: the local `container`
    replicas,       \* scale_deployment: the argument `replicas`
    workload,       \* the target deployment as the orchestrator holds it
    read_deployment \* scale_deployment: the local `deployment`

vars == <<cluster, pc, namespace, deployments, ns_items, accessible_namespaces,
          namespaces, ns_i, dep_i, calls, result, item, classified,
          handler, served, quantity, parsed, pods, container,
          replicas, workload, read_deployment>>

(* The variables of the parser specification and of the pod operations. *)
parser_vars == <<quantity, parsed>>
pod_vars == <<pods, container>>
scale_vars == <<replicas, workload, read_deployment>>

----------------------------------------------------------------------------
(* Optional values *)

None == {}
Some(v) == {v}
Get(o) == CHOOSE v \in o : TRUE

(* Python truthiness of an Optional[str]: None and "" are falsy. *)
Truthy(o) == o # None /\ o # Some("")

----------------------------------------------------------------------------
(* Annotation keys *)

GAME_ANNOTATION == "game-server/game"
INSTANCE_ANNOTATION == "game-server/instance"
COMPONENT_ANNOTATION == "game-server/component"
FILES_URL_ANNOTATION == "game-server/files-url"

EmptyMap == << >>

(* dict.get(key) and dict.get(key, default) *)
DictGet(d, k) == IF k \in DOMAIN d THEN Some(d[k]) ELSE None
DictGetDefault(d, k, default) == IF k \in DOMAIN d THEN d[k] ELSE default

----------------------------------------------------------------------------
(* Workload Classifier: _process_deployment_item *)

(* `item.metadata.annotations or {}` *)
annotations_of(it) ==
    IF it.annotations = None THEN EmptyMap ELSE Get(it.annotations)

(* A plausible slip: only a missing key is rejected, an empty value is not. *)
is_participant_KeyOnly(it) ==
    DictGet(annotations_of(it), GAME_ANNOTATION) # None

(* `if not game: return None` *)
is_participant(it) ==
    Truthy(DictGet(annotations_of(it), GAME_ANNOTATION))

(* A plausible slip: the scaled-to-zero case is forgotten. *)
derive_status_NoZeroCase(it) ==
    IF it.available_replicas # None /\ Get(it.available_replicas) > 0
    THEN "active" ELSE "failed"

(* The health rule of lines 261-268. *)
derive_status(it) ==
    IF it.replicas = 0
       \/ (it.available_replicas # None /\ Get(it.available_replicas) > 0)
    THEN "active" ELSE "failed"

(* `x or 0` on an Optional[int] *)
OrZero(o) == IF o = None \/ o = Some(0) THEN 0 ELSE Get(o)

(* `if item.spec.selector and item.spec.selector.match_labels` *)
selector_labels_of(it) ==
    IF it.match_labels # None /\ Get(it.match_labels) # << >>
    THEN Get(it.match_labels) ELSE << >>

process_deployment_item(it) ==
    IF ~is_participant(it) THEN None
    ELSE LET annotations == annotations_of(it) IN
         Some([name |-> it.name,
               namespace |-> it.namespace,
               game |-> annotations[GAME_ANNOTATION],
               instance |-> DictGetDefault(annotations, INSTANCE_ANNOTATION, "unknown"),
               component |-> DictGetDefault(annotations, COMPONENT_ANNOTATION, "unknown"),
               replicas |-> it.replicas,
               available_replicas |-> OrZero(it.available_replicas),
               unavailable_replicas |-> OrZero(it.unavailable_replicas),
               status |-> derive_status(it),
               cpu_usage |-> None,
               memory_usage |-> None,
               selector_labels |-> selector_labels_of(it),
               files_url |-> DictGet(annotations, FILES_URL_ANNOTATION)])

(* The loop `for item in response.items: ... deployments.append(deployment)` *)
RECURSIVE process_items(_)
process_items(items) ==
    IF items = << >> THEN << >>
    ELSE LET d == process_deployment_item(Head(items)) IN
         (IF d = None THEN << >> ELSE <<Get(d)>>) \o process_items(Tail(items))

----------------------------------------------------------------------------
(* Unit Parser.  A quantity string is a sequence of characters.  The       *)
(* numerals of the model are digit strings: float() and int() accept a     *)
(* non-empty digit string and raise ValueError on every other string over  *)
(* the model's alphabet (digits, the unit letters, and the letter "x").    *)

DigitChars == {"0", "1", "2", "3", "4", "5", "6", "7", "8", "9"}

DigitVal(c) ==
    CASE c = "0" -> 0 [] c = "1" -> 1 [] c = "2" -> 2 [] c = "3" -> 3
      [] c = "4" -> 4 [] c = "5" -> 5 [] c = "6" -> 6 [] c = "7" -> 7
      [] c = "8" -> 8 [] c = "9" -> 9

IsNumeral(s) == s # << >> /\ \A i \in 1..Len(s) : s[i] \in DigitChars

RECURSIVE NumeralValue(_)
NumeralValue(s) ==
    IF s = << >> THEN 0
    ELSE NumeralValue(SubSeq(s, 1, Len(s) - 1)) * 10 + DigitVal(s[Len(s)])

(* str.endswith(suffix) and s[:-n] *)
EndsWith(s, suffix) ==
    Len(s) >= Len(suffix)
    /\ SubSeq(s, Len(s) - Len(suffix) + 1, Len(s)) = suffix
DropLast(s, n) == SubSeq(s, 1, Len(s) - n)

(* A parse either returns a value or raises ValueError. *)
ValueError == [ok |-> FALSE, w |-> 0, f |-> 0]

(* A float number of millicores is kept exactly, as w + f / 10^6 with     *)
(* 0 <= f < 10^6 (f counts nanocores).                                      *)
Millicores(w, f) == [ok |-> TRUE, w |-> w, f |-> f]

Nano == 1000000

parse_cpu_metrics(cpu_str) ==
    IF cpu_str = << >> THEN Millicores(0, 0)
    ELSE IF EndsWith(cpu_str, <<"m">>)
    THEN (IF IsNumeral(DropLast(cpu_str, 1))
          THEN Millicores(NumeralValue(DropLast(cpu_str, 1)), 0)
          ELSE ValueError)
    ELSE IF EndsWith(cpu_str, <<"n">>)
    THEN (IF IsNumeral(DropLast(cpu_str, 1))
          THEN Millicores(NumeralValue(DropLast(cpu_str, 1)) \div Nano,
                          NumeralValue(DropLast(cpu_str, 1)) % Nano)
          ELSE ValueError)
    ELSE IF IsNumeral(cpu_str)
    THEN Millicores(NumeralValue(cpu_str) * 1000, 0)
    ELSE ValueError

(* A byte count is a Python int, which has no upper limit: it is kept as   *)
(* its decimal digits, most significant first, without leading zeros.      *)
Zero == <<0>>

RECURSIVE Canonical(_)
Canonical(digits) ==
    IF Len(digits) > 1 /\ digits[1] = 0 THEN Canonical(Tail(digits)) ELSE digits

(* int(s) and int(float(s)) of a digit string *)
NumeralDigits(s) == Canonical([i \in DOMAIN s |-> DigitVal(s[i])])

(* digits * factor + carry, for a factor that fits a machine word *)
RECURSIVE TimesSmall(_, _, _)
TimesSmall(digits, factor, carry) ==
    IF digits = << >>
    THEN (IF carry = 0 THEN << >> ELSE TimesSmall(<< >>, factor, carry \div 10) \o <<carry % 10>>)
    ELSE LET x == digits[Len(digits)] * factor + carry
         IN TimesSmall(SubSeq(digits, 1, Len(digits) - 1), factor, x \div 10) \o <<x % 10>>

(* digits * base^exponent *)
RECURSIVE TimesPower(_, _, _)
TimesPower(digits, base, exponent) ==
    IF exponent = 0 THEN Canonical(digits)
    ELSE TimesPower(Canonical(TimesSmall(digits, base, 0)), base, exponent - 1)

(* The value of a byte count that fits the model's integers; the totals    *)
(* and the display of the metrics gateway are computed on these.           *)
RECURSIVE BigToInt(_)
BigToInt(digits) ==
    IF digits = << >> THEN 0
    ELSE BigToInt(SubSeq(digits, 1, Len(digits) - 1)) * 10 + digits[Len(digits)]

Bytes(n) == [ok |-> TRUE, w |-> n, f |-> 0]

(* Lines 122 and 128: the suffixes in the order of the two dicts. *)
binary_units == << <<"K", "i">>, <<"M", "i">>, <<"G", "i">>, <<"T", "i">> >>
decimal_units == << <<"K">>, <<"M">>, <<"G">>, <<"T">> >>

(* A plausible slip: the binary suffixes get the decimal multipliers. *)
binary_multiplier_Decimal(i) == [base |-> 1000, exponent |-> i]

(* Line 122: 2**10, 2**20, 2**30, 2**40, which are 1024^1 .. 1024^4. *)
binary_multiplier(i) == [base |-> 1024, exponent |-> i]

(* Line 128: 10**3, 10**6, 10**9, 10**12, which are 1000^1 .. 1000^4. *)
decimal_multiplier(i) == [base |-> 1000, exponent |-> i]

(* The loops of lines 123-124 and 129-130: the first suffix of the dict    *)
(* the string ends with, or 0.                                             *)
matching_unit(memory_str, units) ==
    IF \E i \in DOMAIN units : EndsWith(memory_str, units[i])
    THEN CHOOSE i \in DOMAIN units :
            /\ EndsWith(memory_str, units[i])
            /\ \A j \in 1..(i - 1) : ~EndsWith(memory_str, units[j])
    ELSE 0

(* int(float(memory_str[:-n]) * multiplier); the products of the model     *)
(* are below 2^53, where the float product is exact.                       *)
ScaledBytes(memory_str, n, multiplier) ==
    IF IsNumeral(DropLast(memory_str, n))
    THEN Bytes(TimesPower(NumeralDigits(DropLast(memory_str, n)),
                          multiplier.base, multiplier.exponent))
    ELSE ValueError

parse_memory_metrics(memory_str) ==
    IF memory_str = << >> THEN Bytes(Zero)
    ELSE LET binary == matching_unit(memory_str, binary_units)
             decimal == matching_unit(memory_str, decimal_units)
         IN IF binary # 0
            THEN ScaledBytes(memory_str, 2, binary_multiplier(binary))
            ELSE IF decimal # 0
            THEN ScaledBytes(memory_str, 1, decimal_multiplier(decimal))
            ELSE IF IsNumeral(memory_str) THEN Bytes(NumeralDigits(memory_str))
            ELSE ValueError

(* "{x:.2f}" of the exact quotient num / den: the nearest hundredth, a tie *)
(* going to the even one.  The quotients bytes / 2^k are exact in binary   *)
(* floating point; the CPU totals of the model fall on no tie.             *)
Hundredths(num, den) ==
    LET q == (num * 100) \div den
        r == (num * 100) % den
    IN IF 2 * r > den \/ (2 * r = den /\ q % 2 = 1) THEN q + 1 ELSE q

TwoDecimals(h) ==
    ToString(h \div 100) \o "." \o ToString((h % 100) \div 10) \o ToString(h % 10)

(* millicores / 1000 to two decimals: w / 10 + f / 10^7 hundredths *)
CoreHundredths(w, f) ==
    LET q == w \div 10
        r == (w % 10) * Nano + f
    IN IF 2 * r > 10 * Nano \/ (2 * r = 10 * Nano /\ q % 2 = 1) THEN q + 1 ELSE q

format_cpu(millicores) ==
    IF millicores.w >= 1000
    THEN TwoDecimals(CoreHundredths(millicores.w, millicores.f)) \o " cores"
    ELSE ToString(millicores.w) \o "m"

format_memory(bytes_val) ==
    IF bytes_val >= 2^30 THEN TwoDecimals(Hundredths(bytes_val, 2^30)) \o "Gi"
    ELSE IF bytes_val >= 2^20 THEN TwoDecimals(Hundredths(bytes_val, 2^20)) \o "Mi"
    ELSE IF bytes_val >= 2^10 THEN TwoDecimals(Hundredths(bytes_val, 2^10)) \o "Ki"
    ELSE ToString(bytes_val) \o "B"

(* total_cpu += cpu_value *)
AddMillicores(a, b) ==
    [w |-> a.w + b.w + ((a.f + b.f) \div Nano), f |-> (a.f + b.f) % Nano]

----------------------------------------------------------------------------
(* Metrics Gateway: get_pod_metrics.  resp is what the metrics capability  *)
(* answered: an ApiException with a status, another exception raised by    *)
(* the client, or a list of pod entries.                                    *)

(* usage.get("cpu", "0") *)
UsageGet(o) == IF o = None THEN <<"0">> ELSE Get(o)

(* The loop over one pod's containers: the totals, or the ValueError of    *)
(* the first quantity that does not parse (CPU before memory).              *)
RECURSIVE container_totals(_)
container_totals(containers) ==
    IF containers = << >> THEN [ok |-> TRUE, cpu |-> [w |-> 0, f |-> 0], memory |-> 0]
    ELSE LET rest == container_totals(SubSeq(containers, 1, Len(containers) - 1))
             usage == containers[Len(containers)]
             cpu_value == parse_cpu_metrics(UsageGet(usage.cpu))
             memory_value == parse_memory_metrics(UsageGet(usage.memory))
         IN IF ~rest.ok \/ ~cpu_value.ok \/ ~memory_value.ok
            THEN [ok |-> FALSE, cpu |-> [w |-> 0, f |-> 0], memory |-> 0]
            ELSE [ok |-> TRUE,
                  cpu |-> AddMillicores(rest.cpu, cpu_value),
                  memory |-> rest.memory + BigToInt(memory_value.w)]

(* The loop over result["items"]: the dict pod name -> entry, a later      *)
(* entry of the same name replacing an earlier one.                         *)
RECURSIVE pod_entries(_)
pod_entries(items) ==
    IF items = << >> THEN [ok |-> TRUE, metrics |-> << >>]
    ELSE LET rest == pod_entries(SubSeq(items, 1, Len(items) - 1))
             pod == items[Len(items)]
             totals == container_totals(pod.containers)
         IN IF ~rest.ok \/ ~totals.ok THEN [ok |-> FALSE, metrics |-> << >>]
            ELSE [ok |-> TRUE,
                  metrics |->
                      [n \in DOMAIN rest.metrics \cup {pod.name} |->
                          IF n = pod.name
                          THEN [cpu |-> format_cpu(totals.cpu),
                                memory |-> format_memory(totals.memory),
                                cpu_raw |-> totals.cpu,
                                memory_raw |-> totals.memory]
                          ELSE rest.metrics[n]]]

(* A plausible slip: a failed metrics call is re-raised instead of         *)
(* answered with the empty mapping.                                        *)
get_pod_metrics_Reraise(resp) ==
    IF resp.kind = "ok" THEN pod_entries(resp.items)
    ELSE [ok |-> FALSE, metrics |-> << >>]

(* ok is FALSE when an exception leaves get_pod_metrics. *)
get_pod_metrics(resp) ==
    IF resp.kind = "ok" THEN pod_entries(resp.items)
    ELSE IF resp.kind = "api_error" THEN [ok |-> TRUE, metrics |-> << >>]
    ELSE [ok |-> FALSE, metrics |-> << >>]

----------------------------------------------------------------------------
(* The orchestrator: its content and the responses of its calls.           *)
(* A deployment the API server lists has a name, a namespace and a replica *)
(* count (the server defaults spec.replicas).  A listing call is answered  *)
(* by the API server, with items or with an ApiException; the metrics call *)
(* may in addition raise an exception that is no ApiException.             *)

MaxItems == 2

(* Raw deployments: what the classifier reads of a V1Deployment. *)
Pool ==
    { [name |-> "api", namespace |-> "default",
       annotations |-> Some(GAME_ANNOTATION :> "foo" @@ INSTANCE_ANNOTATION :> "prod" @@ COMPONENT_ANNOTATION :> "api"),
       replicas |-> 2, available_replicas |-> Some(2), unavailable_replicas |-> None,
       match_labels |-> Some(<< <<"app", "api">>, <<"tier", "game">> >>)],
      [name |-> "db", namespace |-> "default",
       annotations |-> Some(GAME_ANNOTATION :> "foo" @@ INSTANCE_ANNOTATION :> "prod" @@ COMPONENT_ANNOTATION :> "db"),
       replicas |-> 1, available_replicas |-> Some(0), unavailable_replicas |-> Some(1),
       match_labels |-> None],
      [name |-> "web", namespace |-> "games",
       annotations |-> Some(GAME_ANNOTATION :> "bar" @@ FILES_URL_ANNOTATION :> "http://files/bar"),
       replicas |-> 0, available_replicas |-> None, unavailable_replicas |-> None,
       match_labels |-> Some(<< <<"app", "web">> >>)],
      [name |-> "dns", namespace |-> "games",
       annotations |-> None,
       replicas |-> 1, available_replicas |-> Some(1), unavailable_replicas |-> None,
       match_labels |-> Some(<< <<"app", "dns">> >>)],
      [name |-> "proxy", namespace |-> "default",
       annotations |-> Some(INSTANCE_ANNOTATION :> "prod" @@ COMPONENT_ANNOTATION :> "proxy"),
       replicas |-> 1, available_replicas |-> Some(1), unavailable_replicas |-> None,
       match_labels |-> Some(<< <<"app", "proxy">> >>)],
      [name |-> "blank", namespace |-> "games",
       annotations |-> Some(GAME_ANNOTATION :> "" @@ INSTANCE_ANNOTATION :> "prod"),
       replicas |-> 1, available_replicas |-> Some(1), unavailable_replicas |-> None,
       match_labels |-> Some(<< >>)] }

(* The listings of the model: at most MaxItems deployments, none twice. *)
Clusters ==
    { s \in UNION { [1..n -> Pool] : n \in 0..MaxItems } :
        \A i, j \in DOMAIN s : i # j => s[i] # s[j] }

(* What list_namespace answers when it succeeds. *)
AllNamespaces == <<"default", "games">>

(* The namespace argument: absent, empty, or a namespace name. *)
NamespaceArgs == {None, Some(""), Some("default"), Some("games")}

(* ApiException statuses the orchestrator answers with. *)
Statuses == {403, 404, 500}

ApiException(status) == [kind |-> "api_error", status |-> status, items |-> << >>]
Response(items) == [kind |-> "ok", status |-> 200, items |-> items]

(* A listing call is answered with the items asked for or an ApiException. *)
ListResponses(items) == {Response(items)} \cup {ApiException(s) : s \in Statuses}

(* Pod metrics entries *)
Usage(cpu, memory) == [cpu |-> cpu, memory |-> memory]
PodMetric(name, containers) == [name |-> name, containers |-> containers]

Q250m == <<"2", "5", "0", "m">>
Q1Core == <<"1">>
QHalfCoreNano == <<"5", "0", "0", "0", "0", "0", "0", "0", "0", "n">>
Q1Ki == <<"1", "K", "i">>
Q512 == <<"5", "1", "2">>
QBadCpu == <<"1", "x">>
QBadMemory == <<"5", "k">>

(* What the metrics capability answers: an ApiException, an exception     *)
(* that is no ApiException, or pod entries.                                *)
MetricResponses ==
    { ApiException(s) : s \in Statuses }
    \cup { [kind |-> "exception", status |-> 0, items |-> << >>] }
    \cup { Response(<< >>),
           Response(<< PodMetric("p1", << Usage(Some(Q250m), Some(Q1Ki)) >>) >>),
           Response(<< PodMetric("p1", << Usage(Some(Q250m), Some(Q1Ki)) >>),
                       PodMetric("p2", << Usage(Some(Q1Core), Some(Q512)),
                                          Usage(Some(QHalfCoreNano), None) >>) >>),
           Response(<< PodMetric("p1", << Usage(Some(QBadCpu), Some(Q1Ki)) >>) >>),
           Response(<< PodMetric("p1", << Usage(Some(Q250m), Some(QBadMemory)) >>) >>) }

(* list_namespaced_deployment(namespace=ns).items *)
ItemsIn(ns) == SelectSeq(cluster, LAMBDA it : it.namespace = ns)

(* list_namespaced_deployment(namespace=ns, limit=1).items *)
ProbeItems(ns) == IF ItemsIn(ns) = << >> THEN << >> ELSE <<Head(ItemsIn(ns))>>

(* One entry of the call log. *)
Call(op, ns, label_selector, resp) ==
    [op |-> op, namespace |-> ns, label_selector |-> label_selector, resp |-> resp]

(* The client operation a request runs; game_name is the argument of      *)
(* get_game_instances.                                                     *)
Handler(op, game_name) == [op |-> op, game_name |-> game_name]
NoHandler == Handler("none", "")

(* The game_name argument of get_game_instances. *)
GameNameArgs == {"foo", "bar", "baz"}

(* What the request returned or raised. *)
NoResult == [kind |-> "none", status |-> 0, body |-> << >>]
Returned(body) == [kind |-> "returned", status |-> 200, body |-> body]
HTTPException(status) == [kind |-> "HTTPException", status |-> status, body |-> << >>]

----------------------------------------------------------------------------
(* Aggregator: get_games and get_game_instances (lines 446-524), as        *)
(* functions of the list that `await self.get_deployments()` gave them.    *)

(* The strings the model sorts, in the order of Python's str comparison    *)
(* (by code point; a proper prefix comes first).                           *)
NameOrder == <<"", "2024-01-01T00:00:00+00:00", "2024-01-02T00:00:00+00:00",
               "a", "a/b", "api", "b/c", "bar", "baz", "c", "db",
               "foo", "prod", "unknown", "web">>

Rank(name) == CHOOSE i \in DOMAIN NameOrder : NameOrder[i] = name

(* a < b for two strings *)
Precedes(a, b) == Rank(a) < Rank(b)

(* A plausible slip: the list is returned in the order it was built. *)
sorted_Unsorted(pairs) == pairs

(* sorted(..., key=...) over <<key, value>> pairs: Python's sort is        *)
(* stable, so an element goes after every element whose key is not         *)
(* greater than its own.                                                   *)
RECURSIVE sorted(_)
sorted(pairs) ==
    IF pairs = << >> THEN << >>
    ELSE LET before == sorted(SubSeq(pairs, 1, Len(pairs) - 1))
             e == pairs[Len(pairs)]
             n == Cardinality({ i \in DOMAIN before : ~Precedes(e[1], before[i][1]) })
         IN SubSeq(before, 1, n) \o <<e>> \o SubSeq(before, n + 1, Len(before))

(* list.sort(key=..., reverse=True): descending, and elements of equal key *)
(* stay in their order.                                                    *)
RECURSIVE sorted_reverse(_)
sorted_reverse(pairs) ==
    IF pairs = << >> THEN << >>
    ELSE LET before == sorted_reverse(SubSeq(pairs, 1, Len(pairs) - 1))
             e == pairs[Len(pairs)]
             n == Cardinality({ i \in DOMAIN before : ~Precedes(before[i][1], e[1]) })
         IN SubSeq(before, 1, n) \o <<e>> \o SubSeq(before, n + 1, Len(before))

Values(pairs) == [i \in DOMAIN pairs |-> pairs[i][2]]

(* The keys of a dict filled in the order of `names`: first occurrences. *)
RECURSIVE insertion_order(_)
insertion_order(names) ==
    IF names = << >> THEN << >>
    ELSE LET before == insertion_order(SubSeq(names, 1, Len(names) - 1))
             last == names[Len(names)]
         IN IF \E i \in DOMAIN before : before[i] = last
            THEN before ELSE Append(before, last)

(* A plausible slip: the key leaves the component name out. *)
component_key_InstanceOnly(deployment) == deployment.instance

(* Line 468: the element added to the game's `components` set. *)
component_key(deployment) == deployment.instance \o "/" \o deployment.component

(* A plausible slip: every record of the game is counted. *)
counts_as_failing_Any(deployment) == TRUE

(* Line 470: `if deployment.status == "failed"`. *)
counts_as_failing(deployment) == deployment.status = "failed"

(* Lines 455-482: the Game built from the records of one game. *)
game_summary(listed, game_name) ==
    LET mine == SelectSeq(listed, LAMBDA d : d.game = game_name) IN
    [name |-> game_name,
     instance_count |-> Cardinality({ mine[i].instance : i \in DOMAIN mine }),
     component_count |-> Cardinality({ component_key(mine[i]) : i \in DOMAIN mine }),
     failing_deployments |-> Len(SelectSeq(mine, counts_as_failing))]

(* Lines 454-485 of get_games. *)
get_games(listed) ==
    LET names == insertion_order([i \in DOMAIN listed |-> listed[i].game])
    IN Values(sorted([i \in DOMAIN names |->
                        <<names[i], game_summary(listed, names[i])>>]))

(* A plausible slip: the filter of line 499 is left out. *)
of_game_Unfiltered(deployment, game_name) == TRUE

(* Line 499: `d.game == game_name`. *)
of_game(deployment, game_name) == deployment.game = game_name

(* Lines 515-521: the GameInstance of one instance name. *)
game_instance(game_deployments, instance_name) ==
    LET components == SelectSeq(game_deployments,
                                LAMBDA d : d.instance = instance_name)
    IN [name |-> instance_name,
        components |-> Values(sorted([i \in DOMAIN components |->
                                        <<components[i].component, components[i]>>]))]

(* Lines 498-524 of get_game_instances. *)
get_game_instances(listed, game_name) ==
    LET game_deployments == SelectSeq(listed, LAMBDA d : of_game(d, game_name))
        names == insertion_order([i \in DOMAIN game_deployments |->
                                    game_deployments[i].instance])
    IN Values(sorted([i \in DOMAIN names |->
                        <<names[i], game_instance(game_deployments, names[i])>>]))

(* What the operation of the request makes of get_deployments' outcome:    *)
(* get_deployments returns it (line 438); get_games (lines 452-485) and    *)
(* get_game_instances (lines 496-524) project the list, and an exception   *)
(* of get_deployments leaves them as it is.                                *)
respond(r) ==
    IF r.kind # "returned" THEN r
    ELSE IF handler.op = "get_games" THEN Returned(get_games(r.body))
    ELSE IF handler.op = "get_game_instances"
    THEN Returned(get_game_instances(r.body, handler.game_name))
    ELSE r

----------------------------------------------------------------------------
(* Discovery Engine: get_deployments and _fetch_deployments.               *)

RECURSIVE JoinComma(_)
JoinComma(parts) ==
    IF Len(parts) = 1 THEN parts[1]
    ELSE JoinComma(SubSeq(parts, 1, Len(parts) - 1)) \o "," \o parts[Len(parts)]

(* A plausible slip: the fallback selector is used for every record. *)
label_selector_FallbackOnly(deployment) == "app=" \o deployment.name

(* Lines 394-407: the comma-joined key=value pairs, or app=<name>. *)
label_selector(deployment) ==
    IF deployment.selector_labels # << >>
    THEN JoinComma([i \in 1..Len(deployment.selector_labels) |->
                      deployment.selector_labels[i][1] \o "="
                      \o deployment.selector_labels[i][2]])
    ELSE "app=" \o deployment.name

(* sum(m["cpu_raw"] ...) and sum(m["memory_raw"] ...) over the mapping *)
RECURSIVE total_cpu(_)
total_cpu(pod_metrics) ==
    IF DOMAIN pod_metrics = {} THEN [w |-> 0, f |-> 0]
    ELSE LET n == CHOOSE n \in DOMAIN pod_metrics : TRUE IN
         AddMillicores(total_cpu([m \in DOMAIN pod_metrics \ {n} |-> pod_metrics[m]]),
                       pod_metrics[n].cpu_raw)

RECURSIVE total_memory(_)
total_memory(pod_metrics) ==
    IF DOMAIN pod_metrics = {} THEN 0
    ELSE LET n == CHOOSE n \in DOMAIN pod_metrics : TRUE IN
         total_memory([m \in DOMAIN pod_metrics \ {n} |-> pod_metrics[m]])
         + pod_metrics[n].memory_raw

(* A plausible slip: the handler marks one field only. *)
mark_error_CpuOnly(deployment) ==
    [deployment EXCEPT !.cpu_usage = Some("Error")]

(* Lines 433-436: the handler of an exception raised while enriching. *)
mark_error(deployment) ==
    [deployment EXCEPT !.cpu_usage = Some("Error"), !.memory_usage = Some("Error")]

(* Lines 392-436: one pass of the enrichment loop's body, given what the   *)
(* metrics capability answered.                                           *)
enrich(deployment, resp) ==
    LET gateway == get_pod_metrics(resp) IN
    IF ~gateway.ok THEN mark_error(deployment)
    ELSE IF DOMAIN gateway.metrics # {}
    THEN [deployment EXCEPT
            !.cpu_usage = Some(format_cpu(total_cpu(gateway.metrics))),
            !.memory_usage = Some(format_memory(total_memory(gateway.metrics)))]
    ELSE [deployment EXCEPT !.cpu_usage = Some("N/A"), !.memory_usage = Some("N/A")]

(* Line 371 then lines 391-438: _fetch_deployments returns the list and    *)
(* get_deployments enriches it; an empty list is returned at once.         *)
StartEnrich(fetched) ==
    /\ deployments' = fetched
    /\ dep_i' = 1
    /\ IF fetched = << >>
       THEN pc' = "done" /\ result' = respond(Returned(<< >>))
       ELSE pc' = "enrich" /\ result' = result

(* A plausible slip: the list outlives the request, as a cache would. *)
fresh_deployments_Shared(previous) == previous

(* Line 317: `deployments = []`, a new list for every request. *)
fresh_deployments(previous) == << >>

(* The router's call (router.py lines 43-53). *)
CallGetDeployments ==
    /\ pc = "idle"
    /\ \E ns \in NamespaceArgs : namespace' = ns
    /\ pc' = "fetch"
    /\ handler' = Handler("get_deployments", "")
    /\ deployments' = fresh_deployments(deployments)
    /\ UNCHANGED <<cluster, ns_items, accessible_namespaces, namespaces, ns_i,
                   dep_i, calls, result, item, classified,
                   served, parser_vars, pod_vars, scale_vars>>

(* A plausible slip: the aggregator asks for the "default" namespace. *)
aggregator_namespace_Default == Some("default")

(* Lines 452 and 496: `self.get_deployments()`, without a namespace. *)
aggregator_namespace == None

(* get_games (router.py lines 118-126, client.py line 452). *)
CallGetGames ==
    /\ pc = "idle"
    /\ handler' = Handler("get_games", "")
    /\ namespace' = aggregator_namespace
    /\ pc' = "fetch"
    /\ deployments' = fresh_deployments(deployments)
    /\ UNCHANGED <<cluster, ns_items, accessible_namespaces, namespaces, ns_i,
                   dep_i, calls, result, item, classified,
                   served, parser_vars, pod_vars, scale_vars>>

(* get_game_instances (router.py lines 134-143, client.py line 496). *)
CallGetGameInstances ==
    /\ pc = "idle"
    /\ \E game_name \in GameNameArgs :
         handler' = Handler("get_game_instances", game_name)
    /\ namespace' = aggregator_namespace
    /\ pc' = "fetch"
    /\ deployments' = fresh_deployments(deployments)
    /\ UNCHANGED <<cluster, ns_items, accessible_namespaces, namespaces, ns_i,
                   dep_i, calls, result, item, classified,
                   served, parser_vars, pod_vars, scale_vars>>

(* A plausible slip: the error of the explicit namespace is raised. *)
single_namespace_error_Raise == HTTPException(500)

(* Lines 331-334: the listing of the explicit namespace failed. *)
single_namespace_error == Returned(<< >>)

(* Lines 320-334: `if namespace:` lists that namespace only. *)
ListNamespacedDeployment ==
    /\ pc = "fetch"
    /\ Truthy(namespace)
    /\ \E resp \in ListResponses(ItemsIn(Get(namespace))) :
         /\ calls' = Append(calls, Call("list_namespaced_deployment",
                                        Get(namespace), "", resp))
         /\ IF resp.kind = "ok"
            THEN StartEnrich(deployments \o process_items(resp.items))
            ELSE /\ deployments' = << >>
                 /\ dep_i' = 1
                 /\ pc' = "done"
                 /\ result' = single_namespace_error
    /\ UNCHANGED <<cluster, namespace, ns_items, accessible_namespaces,
                   namespaces, ns_i, item, classified,
                   handler, served, parser_vars, pod_vars, scale_vars>>

(* A plausible slip: every failure of the cluster-wide listing falls back. *)
falls_back_Always(status) == TRUE

(* Line 347: `if e.status == 403`. *)
falls_back(status) == status = 403

(* Lines 336-369: the cluster-wide listing. *)
ListDeploymentForAllNamespaces ==
    /\ pc = "fetch"
    /\ ~Truthy(namespace)
    /\ \E resp \in ListResponses(cluster) :
         /\ calls' = Append(calls, Call("list_deployment_for_all_namespaces",
                                        "", "", resp))
         /\ IF resp.kind = "ok"
            THEN StartEnrich(deployments \o process_items(resp.items))
            ELSE IF falls_back(resp.status)
            THEN /\ pc' = "resolve"
                 /\ UNCHANGED <<deployments, dep_i, result>>
            ELSE /\ pc' = "done"
                 /\ result' = HTTPException(500)
                 /\ UNCHANGED <<deployments, dep_i>>
    /\ UNCHANGED <<cluster, namespace, ns_items, accessible_namespaces,
                   namespaces, ns_i, item, classified,
                   handler, served, parser_vars, pod_vars, scale_vars>>

(* _get_accessible_namespaces returns `resolved` to line 351 and the loop  *)
(* of line 354 starts; with no namespace to list, line 371 returns.        *)
ResolverReturns(resolved) ==
    /\ namespaces' = resolved
    /\ ns_i' = 1
    /\ IF resolved = << >>
       THEN StartEnrich(deployments)
       ELSE pc' = "list_fallback" /\ UNCHANGED <<deployments, dep_i, result>>

(* Lines 215-216 and 233-235: the namespace listing. *)
ListNamespace ==
    /\ pc = "resolve"
    /\ \E resp \in ListResponses(AllNamespaces) :
         /\ calls' = Append(calls, Call("list_namespace", "", "", resp))
         /\ IF resp.kind = "ok"
            THEN /\ accessible_namespaces' = << >>
                 /\ IF resp.items = << >>
                    THEN ns_items' = << >> /\ ResolverReturns(<< >>)
                    ELSE /\ ns_items' = resp.items
                         /\ pc' = "probe"
                         /\ UNCHANGED <<namespaces, ns_i, deployments, dep_i, result>>
            ELSE /\ ResolverReturns(<<"default">>)
                 /\ UNCHANGED <<ns_items, accessible_namespaces>>
    /\ UNCHANGED <<cluster, namespace, item, classified,
                   handler, served, parser_vars, pod_vars, scale_vars>>

(* A plausible slip: the `raise` of line 229 leaves the resolver, as its  *)
(* comment says, and reaches the handler of lines 372-377.                 *)
resolver_catches_Nothing(status) == FALSE

(* Line 233: `except ApiException as e`, whatever the status. *)
resolver_catches(status) == TRUE

(* Lines 218-235: one pass of the probe loop.  The `raise` of line 229 is  *)
(* inside the try of line 214, whose handler (line 233) catches            *)
(* ApiException: the resolver then returns ["default"].                    *)
ProbeNamespace ==
    /\ pc = "probe"
    /\ LET ns == Head(ns_items) IN
       \E resp \in ListResponses(ProbeItems(ns)) :
         /\ calls' = Append(calls, Call("probe", ns, "", resp))
         /\ IF resp.kind = "ok" \/ resp.status = 403
            THEN LET acc == IF resp.kind = "ok"
                            THEN Append(accessible_namespaces, ns)
                            ELSE accessible_namespaces
                 IN /\ accessible_namespaces' = acc
                    /\ ns_items' = Tail(ns_items)
                    /\ IF Tail(ns_items) = << >>
                       THEN ResolverReturns(acc)
                       ELSE UNCHANGED <<pc, namespaces, ns_i, deployments,
                                        dep_i, result>>
            ELSE /\ IF resolver_catches(resp.status)
                    THEN ResolverReturns(<<"default">>)
                    ELSE /\ pc' = "done"
                         /\ result' = HTTPException(500)
                         /\ UNCHANGED <<namespaces, ns_i, deployments, dep_i>>
                 /\ UNCHANGED <<ns_items, accessible_namespaces>>
    /\ UNCHANGED <<cluster, namespace, item, classified,
                   handler, served, parser_vars, pod_vars, scale_vars>>

(* A plausible slip: a failing namespace empties the list, as the handler  *)
(* of the explicit namespace (`return []`) does.                           *)
after_namespace_error_Reset(accumulated) == << >>

(* Lines 364-366: the failure is logged, the accumulated list is kept. *)
after_namespace_error(accumulated) == accumulated

(* Lines 354-366: one pass of the fallback loop. *)
ListFallbackNamespace ==
    /\ pc = "list_fallback"
    /\ LET ns == namespaces[ns_i] IN
       \E resp \in ListResponses(ItemsIn(ns)) :
         /\ calls' = Append(calls, Call("list_namespaced_deployment", ns, "", resp))
         /\ LET accumulated == IF resp.kind = "ok"
                               THEN deployments \o process_items(resp.items)
                               ELSE after_namespace_error(deployments)
            IN IF ns_i = Len(namespaces)
               THEN StartEnrich(accumulated) /\ ns_i' = ns_i + 1
               ELSE /\ deployments' = accumulated
                    /\ ns_i' = ns_i + 1
                    /\ UNCHANGED <<pc, dep_i, result>>
    /\ UNCHANGED <<cluster, namespace, ns_items, accessible_namespaces,
                   namespaces, item, classified,
                   handler, served, parser_vars, pod_vars, scale_vars>>

(* A plausible slip: the handler sits outside the loop, so one failing     *)
(* record ends the enrichment.                                             *)
enrichment_continues_AbortOnError(enriched) ==
    enriched.cpu_usage # Some("Error")

(* Lines 391-392 and 433: the try is inside the loop, so the loop goes on  *)
(* to the next record whatever happened to this one.                       *)
enrichment_continues(enriched) == TRUE

(* Lines 391-438: one pass of the enrichment loop, then line 438. *)
EnrichDeployment ==
    /\ pc = "enrich"
    /\ LET deployment == deployments[dep_i] IN
       \E resp \in MetricResponses :
         LET enriched == enrich(deployment, resp)
             updated == [deployments EXCEPT ![dep_i] = enriched]
         IN /\ calls' = Append(calls, Call("list_namespaced_custom_object",
                                           deployment.namespace,
                                           label_selector(deployment), resp))
            /\ deployments' = updated
            /\ dep_i' = dep_i + 1
            /\ IF dep_i = Len(deployments) \/ ~enrichment_continues(enriched)
               THEN pc' = "done" /\ result' = respond(Returned(updated))
               ELSE UNCHANGED <<pc, result>>
    /\ UNCHANGED <<cluster, namespace, ns_items, accessible_namespaces,
                   namespaces, ns_i, item, classified,
                   handler, served, parser_vars, pod_vars, scale_vars>>

Init ==
    /\ cluster \in Clusters
    /\ pc = "idle"
    /\ namespace = None
    /\ deployments = << >>
    /\ ns_items = << >>
    /\ accessible_namespaces = << >>
    /\ namespaces = << >>
    /\ ns_i = 1
    /\ dep_i = 1
    /\ calls = << >>
    /\ result = NoResult
    /\ item = None
    /\ classified = None
    /\ handler = NoHandler
    /\ served = << >>
    /\ quantity = None
    /\ parsed = None
    /\ pods = << >>
    /\ container = None
    /\ replicas = 0
    /\ workload = None
    /\ read_deployment = None

Next ==
    \/ CallGetDeployments
    \/ ListNamespacedDeployment
    \/ ListDeploymentForAllNamespaces
    \/ ListNamespace
    \/ ProbeNamespace
    \/ ListFallbackNamespace
    \/ EnrichDeployment

Spec == Init /\ [][Next]_vars

----------------------------------------------------------------------------
(* The application serving requests one after another.  Every route        *)
(* builds a new KubernetesClient (get_k8s_client, lines 813-853) and calls *)
(* one operation of it; the operations never suspend between their         *)
(* orchestrator calls (the calls are synchronous), so a request runs to    *)
(* its end before the next one starts.                                     *)

MaxRequests == 1

PoolItem(name) == CHOOSE it \in Pool : it.name = name

(* The clusters of this specification: the two workloads of game foo in    *)
(* either listing order, and a cluster of another game.                    *)
HandlerClusters ==
    { <<PoolItem("api"), PoolItem("db")>>,
      <<PoolItem("db"), PoolItem("api")>>,
      <<PoolItem("web"), PoolItem("dns")>> }

InitHandlers ==
    /\ cluster \in HandlerClusters
    /\ pc = "idle"
    /\ namespace = None
    /\ deployments = << >>
    /\ ns_items = << >>
    /\ accessible_namespaces = << >>
    /\ namespaces = << >>
    /\ ns_i = 1
    /\ dep_i = 1
    /\ calls = << >>
    /\ result = NoResult
    /\ item = None
    /\ classified = None
    /\ handler = NoHandler
    /\ served = << >>
    /\ quantity = None
    /\ parsed = None
    /\ pods = << >>
    /\ container = None
    /\ replicas = 0
    /\ workload = None
    /\ read_deployment = None

(* The response is sent and the request's client and frames are gone; the  *)
(* next request finds the application as the first one did.  The list of   *)
(* the finished request is left in `deployments` until line 317 binds a    *)
(* new one.                                                                *)
ServeNext ==
    /\ pc = "done"
    /\ Len(served) < MaxRequests
    /\ served' = Append(served, Len(result.body))
    /\ pc' = "idle"
    /\ handler' = NoHandler
    /\ namespace' = None
    /\ ns_items' = << >>
    /\ accessible_namespaces' = << >>
    /\ namespaces' = << >>
    /\ ns_i' = 1
    /\ dep_i' = 1
    /\ calls' = << >>
    /\ result' = NoResult
    /\ UNCHANGED <<cluster, deployments, item, classified, parser_vars, pod_vars, scale_vars>>

NextHandlers ==
    \/ CallGetDeployments
    \/ CallGetGames
    \/ CallGetGameInstances
    \/ ListNamespacedDeployment
    \/ ListDeploymentForAllNamespaces
    \/ ListNamespace
    \/ ProbeNamespace
    \/ ListFallbackNamespace
    \/ EnrichDeployment
    \/ ServeNext

SpecHandlers == InitHandlers /\ [][NextHandlers]_vars

----------------------------------------------------------------------------
(* The classifier alone, over every combination of the fields it reads.    *)

MaxReplicas == 2

RawItems ==
    { [name |-> "gs", namespace |-> "default",
       annotations |-> a, replicas |-> r, available_replicas |-> av,
       unavailable_replicas |-> None, match_labels |-> ml] :
        a \in { None, Some(EmptyMap),
                Some(INSTANCE_ANNOTATION :> "prod"),
                Some(GAME_ANNOTATION :> ""),
                Some(GAME_ANNOTATION :> "foo"),
                Some(GAME_ANNOTATION :> "foo" @@ INSTANCE_ANNOTATION :> "prod"
                     @@ COMPONENT_ANNOTATION :> "api") },
        r \in 0..MaxReplicas,
        av \in {None} \cup { Some(n) : n \in 0..MaxReplicas },
        ml \in { None, Some(<< >>), Some(<< <<"app", "gs">> >>) } }

InitClassify ==
    /\ item \in { Some(it) : it \in RawItems }
    /\ classified = None
    /\ pc = "classify"
    /\ cluster = << >>
    /\ namespace = None
    /\ deployments = << >>
    /\ ns_items = << >>
    /\ accessible_namespaces = << >>
    /\ namespaces = << >>
    /\ ns_i = 1
    /\ dep_i = 1
    /\ calls = << >>
    /\ result = NoResult
    /\ handler = NoHandler
    /\ served = << >>
    /\ quantity = None
    /\ parsed = None
    /\ pods = << >>
    /\ container = None
    /\ replicas = 0
    /\ workload = None
    /\ read_deployment = None

(* Lines 237-303: _process_deployment_item(item). *)
ProcessDeploymentItem ==
    /\ pc = "classify"
    /\ classified' = Some(process_deployment_item(Get(item)))
    /\ pc' = "classified"
    /\ UNCHANGED <<cluster, namespace, deployments, ns_items, accessible_namespaces,
                   namespaces, ns_i, dep_i, calls, result, item,
                   handler, served, parser_vars, pod_vars, scale_vars>>

NextClassify == ProcessDeploymentItem

SpecClassify == InitClassify /\ [][NextClassify]_vars

----------------------------------------------------------------------------
(* The aggregator alone, over record lists that get_deployments can hand   *)
(* it: annotation values are free text, so instance and component names    *)
(* may hold a "/"; deployments are told apart by their names.              *)

MaxRecords == 3

(* game, instance, component and status of the records of the model: two  *)
(* games, instance and component names with and without "/", two records  *)
(* of one instance with the same component name.                           *)
ListedValues ==
    { <<"foo", "a/b", "c", "failed">>,
      <<"foo", "a", "b/c", "failed">>,
      <<"foo", "a", "c", "active">>,
      <<"foo", "a", "c", "failed">>,
      <<"bar", "a", "c", "failed">>,
      <<"bar", "a/b", "c", "active">> }

ListedRecord(i, values) ==
    [name |-> "d" \o ToString(i), namespace |-> "default", game |-> values[1],
     instance |-> values[2], component |-> values[3], status |-> values[4]]

RecordLists ==
    UNION { { [i \in 1..n |-> ListedRecord(i, f[i])] : f \in [1..n -> ListedValues] } :
            n \in 0..MaxRecords }

InitAggregate ==
    /\ deployments \in RecordLists
    /\ pc = "aggregate"
    /\ cluster = << >>
    /\ namespace = None
    /\ ns_items = << >>
    /\ accessible_namespaces = << >>
    /\ namespaces = << >>
    /\ ns_i = 1
    /\ dep_i = 1
    /\ calls = << >>
    /\ result = NoResult
    /\ item = None
    /\ classified = None
    /\ handler = NoHandler
    /\ served = << >>
    /\ quantity = None
    /\ parsed = None
    /\ pods = << >>
    /\ container = None
    /\ replicas = 0
    /\ workload = None
    /\ read_deployment = None

(* Lines 454-485: get_games from the list it awaited. *)
ProjectGames ==
    /\ pc = "aggregate"
    /\ handler' = Handler("get_games", "")
    /\ result' = Returned(get_games(deployments))
    /\ pc' = "done"
    /\ UNCHANGED <<cluster, namespace, deployments, ns_items, accessible_namespaces,
                   namespaces, ns_i, dep_i, calls, item, classified, served,
                   parser_vars, pod_vars, scale_vars>>

(* Lines 498-524: get_game_instances from the list it awaited. *)
ProjectGameInstances ==
    /\ pc = "aggregate"
    /\ \E game_name \in GameNameArgs :
         /\ handler' = Handler("get_game_instances", game_name)
         /\ result' = Returned(get_game_instances(deployments, game_name))
    /\ pc' = "done"
    /\ UNCHANGED <<cluster, namespace, deployments, ns_items, accessible_namespaces,
                   namespaces, ns_i, dep_i, calls, item, classified, served,
                   parser_vars, pod_vars, scale_vars>>

NextAggregate == ProjectGames \/ ProjectGameInstances

SpecAggregate == InitAggregate /\ [][NextAggregate]_vars

----------------------------------------------------------------------------
(* The two quantity parsers alone, over numerals of up to MaxDigits digits *)
(* with every suffix the parsers know and some they do not.                *)

MaxDigits == 2

NumeralChars == {"0", "1", "5", "9"}

Numerals == UNION { [1..n -> NumeralChars] : n \in 1..MaxDigits }

Suffixes ==
    { << >>, <<"K", "i">>, <<"M", "i">>, <<"G", "i">>, <<"T", "i">>,
      <<"K">>, <<"M">>, <<"G">>, <<"T">>, <<"m">>, <<"n">>,
      <<"k">>, <<"i">>, <<"x">> }

Q2Gi == <<"2", "G", "i">>
Q500M == <<"5", "0", "0", "M">>

Quantities ==
    { n \o x : n \in Numerals \cup {<< >>}, x \in Suffixes }
    \cup { Q250m, Q1Core, QHalfCoreNano, Q2Gi, Q500M }

InitParse ==
    /\ quantity \in { Some(q) : q \in Quantities }
    /\ parsed = None
    /\ pc = "parse"
    /\ cluster = << >>
    /\ namespace = None
    /\ deployments = << >>
    /\ ns_items = << >>
    /\ accessible_namespaces = << >>
    /\ namespaces = << >>
    /\ ns_i = 1
    /\ dep_i = 1
    /\ calls = << >>
    /\ result = NoResult
    /\ item = None
    /\ classified = None
    /\ handler = NoHandler
    /\ served = << >>
    /\ pods = << >>
    /\ container = None
    /\ replicas = 0
    /\ workload = None
    /\ read_deployment = None

(* Lines 105-115: _parse_cpu_metrics(quantity). *)
ParseCpu ==
    /\ pc = "parse"
    /\ parsed' = Some([fn |-> "cpu", value |-> parse_cpu_metrics(Get(quantity))])
    /\ pc' = "parsed"
    /\ UNCHANGED <<cluster, namespace, deployments, ns_items, accessible_namespaces,
                   namespaces, ns_i, dep_i, calls, result, item, classified,
                   handler, served, quantity, pod_vars, scale_vars>>

(* Lines 117-135: _parse_memory_metrics(quantity). *)
ParseMemory ==
    /\ pc = "parse"
    /\ parsed' = Some([fn |-> "memory", value |-> parse_memory_metrics(Get(quantity))])
    /\ pc' = "parsed"
    /\ UNCHANGED <<cluster, namespace, deployments, ns_items, accessible_namespaces,
                   namespaces, ns_i, dep_i, calls, result, item, classified,
                   handler, served, quantity, pod_vars, scale_vars>>

NextParse == ParseCpu \/ ParseMemory

SpecParse == InitParse /\ [][NextParse]_vars

----------------------------------------------------------------------------
(* Pod & log access: get_pod_logs (lines 690-743).  The pod of the request *)
(* is pods[1]; a pod call is answered with the object asked for, with an   *)
(* ApiException or with an exception that is no ApiException.              *)

DEFAULT_CONTAINER_ANNOTATION == "kubectl.kubernetes.io/default-container"

(* An exception no handler of the operation catches. *)
Unhandled(exception) == [kind |-> exception, status |-> 0, body |-> << >>]

PodCall(op, container_arg, resp) ==
    [op |-> op, namespace |-> "default", label_selector |-> "",
     container |-> container_arg, resp |-> resp]

PodResponses(body) ==
    { Response(body) }
    \cup { ApiException(st) : st \in Statuses }
    \cup { [kind |-> "exception", status |-> 0, items |-> << >>] }

(* The container query parameter: absent, empty or a name. *)
ContainerArgs == {None, Some(""), Some("main")}

LogPods ==
    { << [name |-> "p1", annotations |-> a] >> :
        a \in { None, Some(EmptyMap),
                Some(DEFAULT_CONTAINER_ANNOTATION :> "sidecar"),
                Some(DEFAULT_CONTAINER_ANNOTATION :> ""),
                Some("app/owner" :> "ops") } }

InitPodLogs ==
    /\ pods \in LogPods
    /\ container = None
    /\ replicas = 0
    /\ workload = None
    /\ read_deployment = None
    /\ pc = "idle"
    /\ cluster = << >>
    /\ namespace = None
    /\ deployments = << >>
    /\ ns_items = << >>
    /\ accessible_namespaces = << >>
    /\ namespaces = << >>
    /\ ns_i = 1
    /\ dep_i = 1
    /\ calls = << >>
    /\ result = NoResult
    /\ item = None
    /\ classified = None
    /\ handler = NoHandler
    /\ served = << >>
    /\ quantity = None
    /\ parsed = None

(* The router's call (router.py lines 168-187) and line 705. *)
CallGetPodLogs ==
    /\ pc = "idle"
    /\ handler' = Handler("get_pod_logs", "")
    /\ \E c \in ContainerArgs :
         /\ container' = c
         /\ pc' = IF Truthy(c) THEN "read_log" ELSE "inspect"
    /\ UNCHANGED <<cluster, namespace, deployments, ns_items, accessible_namespaces,
                   namespaces, ns_i, dep_i, calls, result, item, classified,
                   served, parser_vars, pods, scale_vars>>

(* A plausible slip: the handler of the inspection is left to the outer    *)
(* one, which turns an ApiException into the request's failure.            *)
inspection_error_absorbed_NotApi(resp) == resp.kind # "api_error"

(* Lines 716-717: `except Exception` logs a warning and goes on. *)
inspection_error_absorbed(resp) == TRUE

(* Lines 713-715: the container the annotations name, or the one held. *)
default_container(annotations, held) ==
    IF annotations # None /\ Get(annotations) # EmptyMap
       /\ DEFAULT_CONTAINER_ANNOTATION \in DOMAIN Get(annotations)
    THEN Some(Get(annotations)[DEFAULT_CONTAINER_ANNOTATION])
    ELSE held

(* Lines 706-717: the inspection of the pod. *)
ReadNamespacedPod ==
    /\ pc = "inspect"
    /\ \E resp \in PodResponses(pods) :
         /\ calls' = Append(calls, PodCall("read_namespaced_pod", None, resp))
         /\ IF resp.kind = "ok"
            THEN /\ container' = default_container(resp.items[1].annotations, container)
                 /\ pc' = "read_log"
                 /\ UNCHANGED result
            ELSE IF inspection_error_absorbed(resp)
            THEN /\ pc' = "read_log"
                 /\ UNCHANGED <<container, result>>
            ELSE /\ pc' = "done"
                 /\ result' = HTTPException(500)
                 /\ UNCHANGED container
    /\ UNCHANGED <<cluster, namespace, deployments, ns_items, accessible_namespaces,
                   namespaces, ns_i, dep_i, item, classified,
                   handler, served, parser_vars, pods, scale_vars>>

(* Lines 720-743: the log call, with the container argument when the       *)
(* local holds a non-empty name and without it otherwise.                  *)
ReadNamespacedPodLog ==
    /\ pc = "read_log"
    /\ \E resp \in PodResponses(<<"log text">>) :
         /\ calls' = Append(calls, PodCall("read_namespaced_pod_log",
                                           IF Truthy(container) THEN container ELSE None,
                                           resp))
         /\ result' = IF resp.kind = "ok" THEN Returned(resp.items)
                      ELSE IF resp.kind = "api_error" THEN HTTPException(500)
                      ELSE Unhandled("Exception")
    /\ pc' = "done"
    /\ UNCHANGED <<cluster, namespace, deployments, ns_items, accessible_namespaces,
                   namespaces, ns_i, dep_i, item, classified,
                   handler, served, parser_vars, pod_vars, scale_vars>>

NextPodLogs == CallGetPodLogs \/ ReadNamespacedPod \/ ReadNamespacedPodLog

SpecPodLogs == InitPodLogs /\ [][NextPodLogs]_vars

----------------------------------------------------------------------------
(* Pod & log access: get_deployment_pods (lines 608-688).  `pods` are the  *)
(* pods the deployment's selector matches, in listing order.               *)

MaxPods == 2

(* phase and container_statuses (the `ready` flags) of a pod *)
PodStates ==
    { <<None, None>>, <<Some("Pending"), None>>, <<Some("Running"), None>>,
      <<Some("Running"), Some(<<TRUE, TRUE>>)>>,
      <<Some("Running"), Some(<<TRUE, FALSE>>)>>,
      <<Some("Running"), Some(<< >>)>> }

(* creation_timestamp: absent, or the day of January 2024 it falls on *)
CreationTimestamps == {None, Some(1), Some(2)}

MatchedPod(i, state, creation_timestamp) ==
    [name |-> "p" \o ToString(i), phase |-> state[1],
     container_statuses |-> state[2], creation_timestamp |-> creation_timestamp]

PodLists ==
    UNION { { [i \in 1..n |-> MatchedPod(i, f[i][1], f[i][2])] :
                f \in [1..n -> PodStates \X CreationTimestamps] } :
            n \in 0..MaxPods }

(* The match_labels of the deployment read. *)
TargetMatchLabels == << <<"app", "game">>, <<"tier", "backend">> >>

InitPods ==
    /\ pods \in PodLists
    /\ container = None
    /\ replicas = 0
    /\ workload = None
    /\ read_deployment = None
    /\ pc = "idle"
    /\ cluster = << >>
    /\ namespace = None
    /\ deployments = << >>
    /\ ns_items = << >>
    /\ accessible_namespaces = << >>
    /\ namespaces = << >>
    /\ ns_i = 1
    /\ dep_i = 1
    /\ calls = << >>
    /\ result = NoResult
    /\ item = None
    /\ classified = None
    /\ handler = NoHandler
    /\ served = << >>
    /\ quantity = None
    /\ parsed = None

(* datetime.isoformat() of midnight UTC of the day *)
isoformat(day) == "2024-01-0" \o ToString(day) \o "T00:00:00+00:00"

(* Lines 647-657: the status of one pod. *)
pod_status(pod) ==
    LET status == IF Truthy(pod.phase) THEN Get(pod.phase) ELSE "Unknown" IN
    IF /\ status = "Running"
       /\ pod.container_statuses # None
       /\ Get(pod.container_statuses) # << >>
       /\ \E k \in DOMAIN Get(pod.container_statuses) : ~Get(pod.container_statuses)[k]
    THEN "NotReady"
    ELSE status

(* Lines 667-674: the entry of one pod. *)
pod_entry(pod) ==
    [name |-> pod.name, namespace |-> "default", status |-> pod_status(pod),
     created_at |-> IF pod.creation_timestamp # None
                    THEN Some(isoformat(Get(pod.creation_timestamp)))
                    ELSE None]

(* Line 680: result.sort(key=lambda p: p.get("created_at", ""),            *)
(* reverse=True).  Every entry has the key "created_at", so the default "" *)
(* is never used and the sort key of an entry without timestamp is None;   *)
(* sorting two or more entries compares every key with another one, and a  *)
(* comparison with None raises TypeError.                                  *)
sort_newest_first(entries) ==
    IF Len(entries) >= 2 /\ \E i \in DOMAIN entries : entries[i].created_at = None
    THEN [ok |-> FALSE, value |-> << >>]
    ELSE IF Len(entries) < 2 THEN [ok |-> TRUE, value |-> entries]
    ELSE [ok |-> TRUE,
          value |-> Values(sorted_reverse([i \in DOMAIN entries |->
                               <<Get(entries[i].created_at), entries[i]>>]))]

(* The router's call (router.py lines 151-161). *)
CallGetDeploymentPods ==
    /\ pc = "idle"
    /\ handler' = Handler("get_deployment_pods", "")
    /\ pc' = "read_deployment"
    /\ UNCHANGED <<cluster, namespace, deployments, ns_items, accessible_namespaces,
                   namespaces, ns_i, dep_i, calls, result, item, classified,
                   served, parser_vars, pod_vars, scale_vars>>

(* Lines 620-623, and the handler of lines 683-688. *)
ReadNamespacedDeployment ==
    /\ pc = "read_deployment"
    /\ \E resp \in ListResponses(TargetMatchLabels) :
         /\ calls' = Append(calls, PodCall("read_namespaced_deployment", None, resp))
         /\ IF resp.kind = "ok"
            THEN pc' = "list_pods" /\ UNCHANGED result
            ELSE pc' = "done" /\ result' = HTTPException(500)
    /\ UNCHANGED <<cluster, namespace, deployments, ns_items, accessible_namespaces,
                   namespaces, ns_i, dep_i, item, classified,
                   handler, served, parser_vars, pod_vars, scale_vars>>

(* Lines 625-688: the selector, the listing, the entries and the sort. *)
ListNamespacedPod ==
    /\ pc = "list_pods"
    /\ LET label_selector_arg ==
               JoinComma([i \in DOMAIN TargetMatchLabels |->
                            TargetMatchLabels[i][1] \o "=" \o TargetMatchLabels[i][2]])
       IN \E resp \in ListResponses(pods) :
            /\ calls' = Append(calls, [PodCall("list_namespaced_pod", None, resp)
                                         EXCEPT !.label_selector = label_selector_arg])
            /\ result' =
                 IF resp.kind # "ok" THEN HTTPException(500)
                 ELSE LET ordered == sort_newest_first(
                                       [i \in DOMAIN resp.items |-> pod_entry(resp.items[i])])
                      IN IF ordered.ok THEN Returned(ordered.value)
                         ELSE Unhandled("TypeError")
    /\ pc' = "done"
    /\ UNCHANGED <<cluster, namespace, deployments, ns_items, accessible_namespaces,
                   namespaces, ns_i, dep_i, item, classified,
                   handler, served, parser_vars, pod_vars, scale_vars>>

NextPods == CallGetDeploymentPods \/ ReadNamespacedDeployment \/ ListNamespacedPod

SpecPods == InitPods /\ [][NextPods]_vars

----------------------------------------------------------------------------
(* scale_deployment (lines 526-564), called by the start and stop routes   *)
(* (router.py lines 55-72 and 93-110) for the deployment default/d.        *)

(* What the orchestrator holds of the target: its spec. *)
Workloads ==
    { [spec |-> [replicas |-> r, paused |-> p]] :
        r \in 0..MaxReplicas, p \in BOOLEAN }

ScaleCall(op, body, resp) ==
    [op |-> op, namespace |-> "default", label_selector |-> "",
     body |-> body, resp |-> resp]

(* The orchestrator answers with the deployment, if it holds it, or with   *)
(* an ApiException.                                                        *)
DeploymentResponses(held) ==
    { Response(<<Get(w)>>) : w \in {held} \ {None} }
    \cup { ApiException(st) : st \in Statuses }

(* The orchestrator applies a patch: the fields of the body's spec replace *)
(* those of the deployment, the others are kept.                           *)
apply_patch(held, body) ==
    [spec |-> [f \in DOMAIN held.spec |->
                 IF f \in DOMAIN body.spec THEN body.spec[f] ELSE held.spec[f]]]

InitScale ==
    /\ workload \in {None} \cup { Some(w) : w \in Workloads }
    /\ replicas = 0
    /\ read_deployment = None
    /\ pods = << >>
    /\ container = None
    /\ pc = "idle"
    /\ cluster = << >>
    /\ namespace = None
    /\ deployments = << >>
    /\ ns_items = << >>
    /\ accessible_namespaces = << >>
    /\ namespaces = << >>
    /\ ns_i = 1
    /\ dep_i = 1
    /\ calls = << >>
    /\ result = NoResult
    /\ item = None
    /\ classified = None
    /\ handler = NoHandler
    /\ served = << >>
    /\ quantity = None
    /\ parsed = None

(* The call `k8s_client.scale_deployment(..., replicas=n)` of a route. *)
CallScaleDeployment(n) ==
    /\ pc = "idle"
    /\ handler' = Handler("scale_deployment", "")
    /\ replicas' = n
    /\ pc' = "read"
    /\ UNCHANGED <<cluster, namespace, deployments, ns_items, accessible_namespaces,
                   namespaces, ns_i, dep_i, calls, result, item, classified,
                   served, parser_vars, pod_vars, workload, read_deployment>>

(* router.py lines 60-72: start_deployment scales to 1. *)
StartDeployment == CallScaleDeployment(1)

(* router.py lines 98-110: stop_deployment scales to 0. *)
StopDeployment == CallScaleDeployment(0)

(* Lines 559-564: an ApiException of either call fails the request. *)
scale_error == HTTPException(500)

(* Lines 539-545: the read, then `deployment.spec.replicas = replicas` on  *)
(* the local object.                                                       *)
ReadDeploymentForScale ==
    /\ pc = "read"
    /\ \E resp \in DeploymentResponses(workload) :
         /\ calls' = Append(calls, ScaleCall("read_namespaced_deployment", None, resp))
         /\ IF resp.kind = "ok"
            THEN /\ read_deployment' =
                      Some([resp.items[1] EXCEPT !.spec.replicas = replicas])
                 /\ pc' = "patch"
                 /\ result' = result
            ELSE /\ read_deployment' = read_deployment
                 /\ pc' = "done"
                 /\ result' = scale_error
    /\ UNCHANGED <<cluster, namespace, deployments, ns_items, accessible_namespaces,
                   namespaces, ns_i, dep_i, item, classified,
                   handler, served, parser_vars, pod_vars, replicas, workload>>

(* A plausible slip: the local object, already updated, is sent back. *)
patch_body_WholeSpec(deployment, n) == [spec |-> deployment.spec]

(* Line 551: `body={"spec": {"replicas": replicas}}`. *)
patch_body(deployment, n) == [spec |-> [replicas |-> n]]

(* Lines 554-558: the acknowledgment. *)
scale_acknowledgment(n) ==
    [status |-> "success",
     message |-> "Deployment default/d "
                   \o (IF n > 0 THEN "started" ELSE "stopped")
                   \o " successfully"]

(* Lines 547-558: the patch, then the acknowledgment. *)
PatchNamespacedDeployment ==
    /\ pc = "patch"
    /\ LET body == patch_body(Get(read_deployment), replicas) IN
       \E resp \in DeploymentResponses(
                      { apply_patch(Get(w), body) : w \in {workload} \ {None} }) :
         /\ calls' = Append(calls, ScaleCall("patch_namespaced_deployment",
                                             Some(body), resp))
         /\ pc' = "done"
         /\ IF resp.kind = "ok"
            THEN /\ workload' = Some(resp.items[1])
                 /\ result' = Returned(scale_acknowledgment(replicas))
            ELSE /\ workload' = workload
                 /\ result' = scale_error
    /\ UNCHANGED <<cluster, namespace, deployments, ns_items, accessible_namespaces,
                   namespaces, ns_i, dep_i, item, classified,
                   handler, served, parser_vars, pod_vars, replicas, read_deployment>>

NextScale ==
    \/ StartDeployment
    \/ StopDeployment
    \/ ReadDeploymentForScale
    \/ PatchNamespacedDeployment

SpecScale == InitScale /\ [][NextScale]_vars

----------------------------------------------------------------------------
(* Reading the call log of a finished request.                             *)

IsWorkloadListing(call) ==
    call.op \in {"list_deployment_for_all_namespaces", "list_namespaced_deployment"}

IsMetricsQuery(call) == call.op = "list_namespaced_custom_object"

MetricsQueries == SelectSeq(calls, IsMetricsQuery)

Range(s) == { s[i] : i \in DOMAIN s }

StripUsage(d) == [d EXCEPT !.cpu_usage = None, !.memory_usage = None]

(* The raw annotation map holds the game key with a non-empty value. *)
HasGame(it) ==
    /\ it.annotations # None
    /\ GAME_ANNOTATION \in DOMAIN Get(it.annotations)
    /\ Get(it.annotations)[GAME_ANNOTATION] # ""

RequestReturned == pc = "done" /\ result.kind = "returned"

InBody(it) ==
    \E d \in Range(result.body) : d.name = it.name /\ d.namespace = it.namespace

(* C1: when get_deployments returns, a raw workload of a successful        *)
(* listing has a record in the output iff its annotations hold the game    *)
(* key with a non-empty value; every record comes from such a workload.    *)
C1_ParticipationIffGame ==
    RequestReturned =>
        /\ \A i \in DOMAIN calls :
             (IsWorkloadListing(calls[i]) /\ calls[i].resp.kind = "ok") =>
                 \A it \in Range(calls[i].resp.items) : InBody(it) <=> HasGame(it)
        /\ \A d \in Range(result.body) : d.game # ""

(* A listing returned a participant and a workload whose game value is     *)
(* empty, and the request returned.                                       *)
C1_Witness ==
    /\ RequestReturned
    /\ \E i \in DOMAIN calls :
         /\ IsWorkloadListing(calls[i]) /\ calls[i].resp.kind = "ok"
         /\ \E it1, it2 \in Range(calls[i].resp.items) :
              /\ HasGame(it1) /\ InBody(it1)
              /\ it2.annotations # None
              /\ GAME_ANNOTATION \in DOMAIN Get(it2.annotations)
              /\ ~HasGame(it2) /\ ~InBody(it2)

(* C2: a participating workload is active when desired replicas are 0,     *)
(* active when desired and available replicas are both positive, failed    *)
(* when desired replicas are positive and available is 0 or unset; the     *)
(* status is never anything else.                                          *)
C2_HealthDerivation ==
    (classified # None /\ Get(classified) # None) =>
        LET it == Get(item)
            d == Get(Get(classified))
        IN /\ d.status \in {"active", "failed"}
           /\ it.replicas = 0 => d.status = "active"
           /\ (it.replicas > 0 /\ it.available_replicas # None
               /\ Get(it.available_replicas) > 0) => d.status = "active"
           /\ (it.replicas > 0
               /\ (it.available_replicas = None \/ it.available_replicas = Some(0)))
              => d.status = "failed"

(* A participant scaled to zero with no available count is classified     *)
(* active.                                                                 *)
C2_Witness ==
    /\ classified # None /\ Get(classified) # None
    /\ Get(item).replicas = 0
    /\ Get(item).available_replicas = None
    /\ Get(Get(classified)).status = "active"

(* The request had no namespace filter and its cluster-wide listing was    *)
(* answered with the given kind of failure.                                *)
ClusterListingFailed ==
    /\ calls # << >>
    /\ calls[1].op = "list_deployment_for_all_namespaces"
    /\ calls[1].resp.kind = "api_error"

ClusterListingForbidden == ClusterListingFailed /\ calls[1].resp.status = 403

(* The per-namespace listings of the fallback loop, in the order issued. *)
IsNamespaceListing(call) == call.op = "list_namespaced_deployment"
NamespaceListings == SelectSeq(calls, IsNamespaceListing)

(* C3: after a 403 of the cluster-wide listing the request returns the     *)
(* union of the classified results of the per-namespace listings that      *)
(* succeeded; every resolved namespace is listed, whether or not an        *)
(* earlier one failed, and a failed one contributes nothing.               *)
C3_FallbackUnion ==
    (ClusterListingForbidden /\ pc = "done") =>
        /\ result.kind = "returned"
        /\ [i \in DOMAIN NamespaceListings |-> NamespaceListings[i].namespace]
             = namespaces
        /\ { StripUsage(d) : d \in Range(result.body) }
             = UNION { Range(process_items(NamespaceListings[i].resp.items)) :
                         i \in { j \in DOMAIN NamespaceListings :
                                   NamespaceListings[j].resp.kind = "ok" } }
        /\ \A i \in DOMAIN NamespaceListings :
             NamespaceListings[i].resp.kind # "ok" =>
                 \A d \in Range(result.body) :
                     d.namespace # NamespaceListings[i].namespace

(* The fallback listed two namespaces: the first succeeded with a          *)
(* participant, the second failed, and the participant is returned.        *)
C3_Witness ==
    /\ ClusterListingForbidden /\ RequestReturned
    /\ Len(NamespaceListings) = 2
    /\ NamespaceListings[1].resp.kind = "ok"
    /\ NamespaceListings[2].resp.kind = "api_error"
    /\ result.body # << >>

(* C4: when the cluster-wide listing fails with a status other than 403,   *)
(* nothing else is called (no namespace listing, probe or per-namespace    *)
(* listing) and the request fails with HTTP 500, returning no records.     *)
C4_OtherFailurePropagates ==
    (ClusterListingFailed /\ calls[1].resp.status # 403) =>
        /\ Len(calls) = 1
        /\ pc = "done"
        /\ result.kind = "HTTPException"
        /\ result.status = 500
        /\ result.body = << >>

(* The cluster-wide listing failed with 404 and the request failed. *)
C4_Witness ==
    /\ ClusterListingFailed
    /\ calls[1].resp.status = 404
    /\ ~Truthy(namespace)
    /\ result.kind = "HTTPException"

(* C5: with a namespace filter only that namespace is listed: there is no  *)
(* cluster-wide listing, namespace listing or probe; when its listing      *)
(* fails with any status the request returns the empty list, and the       *)
(* request never fails.                                                    *)
C5_ExplicitNamespace ==
    Truthy(namespace) =>
        /\ \A i \in DOMAIN calls :
             \/ i = 1 /\ IsNamespaceListing(calls[i])
                      /\ calls[i].namespace = Get(namespace)
             \/ i > 1 /\ IsMetricsQuery(calls[i])
        /\ (calls # << >> /\ calls[1].resp.kind = "api_error") =>
               /\ Len(calls) = 1
               /\ pc = "done"
               /\ result = Returned(<< >>)
        /\ result.kind # "HTTPException"
        /\ pc \in {"fetch", "enrich", "done"}

(* The listing of the explicit namespace was forbidden and the request     *)
(* returned the empty list.                                                *)
C5_Witness ==
    /\ Truthy(namespace)
    /\ calls # << >> /\ calls[1].resp.status = 403
    /\ ItemsIn(Get(namespace)) # << >>
    /\ RequestReturned /\ result.body = << >>

(* The probes of the resolver, in the order issued. *)
IsProbe(call) == call.op = "probe"
Probes == SelectSeq(calls, IsProbe)

ProbeSucceeded(call) == call.resp.kind = "ok"
ProbeFailedOther(call) == call.resp.kind = "api_error" /\ call.resp.status # 403

(* The resolver has returned a namespace list to _fetch_deployments. *)
ResolverReturned == namespaces # << >> \/ pc = "list_fallback"

(* C6: the resolver returns the namespaces whose probe succeeded, leaving  *)
(* out those whose probe was answered 403; a probe that fails with any     *)
(* other status propagates out of the resolver, which then yields no       *)
(* namespace set.                                                          *)
C6_ProbeErrorPropagates ==
    /\ (\E i \in DOMAIN Probes : ProbeFailedOther(Probes[i])) => ~ResolverReturned
    /\ (ResolverReturned /\ Probes # << >>
        /\ \A i \in DOMAIN Probes : ~ProbeFailedOther(Probes[i])) =>
           namespaces = [i \in DOMAIN SelectSeq(Probes, ProbeSucceeded) |->
                           SelectSeq(Probes, ProbeSucceeded)[i].namespace]

(* The metrics capability is not installed: every metrics query so far     *)
(* was answered 404.                                                       *)
MetricsAbsent ==
    \A i \in DOMAIN MetricsQueries : MetricsQueries[i].resp = ApiException(404)

NotAvailable(d) == d.cpu_usage = Some("N/A") /\ d.memory_usage = Some("N/A")

(* C7: with the metrics capability absent get_pod_metrics returns the      *)
(* empty mapping, every record enriched carries "N/A" for both usages,     *)
(* none carries "Error", and the request returns rather than fails.        *)
C7_MetricsAbsentGivesNA ==
    /\ get_pod_metrics(ApiException(404)) = [ok |-> TRUE, metrics |-> << >>]
    /\ (MetricsAbsent /\ MetricsQueries # << >>) =>
          /\ \A i \in DOMAIN MetricsQueries : NotAvailable(deployments[i])
          /\ result.kind # "HTTPException"
          /\ pc = "done" =>
                /\ result.kind = "returned"
                /\ result.body # << >>
                /\ \A d \in Range(result.body) : NotAvailable(d)

(* Two records were returned, both with "N/A", every query answered 404. *)
C7_Witness ==
    /\ RequestReturned
    /\ Len(result.body) = 2
    /\ Len(MetricsQueries) = 2
    /\ MetricsAbsent
    /\ \A d \in Range(result.body) : NotAvailable(d)

(* The records _fetch_deployments returned, read off the call log: the     *)
(* classified items of the successful workload listings, in order.         *)
RECURSIVE FetchedFrom(_)
FetchedFrom(log) ==
    IF log = << >> THEN << >>
    ELSE FetchedFrom(SubSeq(log, 1, Len(log) - 1))
         \o (IF IsWorkloadListing(log[Len(log)]) /\ log[Len(log)].resp.kind = "ok"
             THEN process_items(log[Len(log)].resp.items) ELSE << >>)

(* Enrichment of a record threw: the metrics call raised something that    *)
(* is no ApiException, or a quantity did not parse.                        *)
EnrichmentThrew(resp) == ~get_pod_metrics(resp).ok

HasError(d) == d.cpu_usage = Some("Error") /\ d.memory_usage = Some("Error")

(* C8: enrichment failures are isolated per record.  The request returns   *)
(* every classified record, in the order fetched; a record whose           *)
(* enrichment threw carries "Error", and every record carries what its     *)
(* own metrics answer alone determines.                                    *)
C8_EnrichmentIsolated ==
    (pc = "done" /\ MetricsQueries # << >>) =>
        /\ result.kind = "returned"
        /\ [i \in DOMAIN result.body |-> StripUsage(result.body[i])]
             = FetchedFrom(calls)
        /\ Len(MetricsQueries) = Len(result.body)
        /\ \A i \in DOMAIN result.body :
             /\ EnrichmentThrew(MetricsQueries[i].resp) => HasError(result.body[i])
             /\ result.body[i]
                  = enrich(FetchedFrom(calls)[i], MetricsQueries[i].resp)

(* Enrichment of the first of two records threw; the second carries its    *)
(* formatted totals.                                                       *)
C8_Witness ==
    /\ RequestReturned
    /\ Len(result.body) = 2
    /\ EnrichmentThrew(MetricsQueries[1].resp)
    /\ HasError(result.body[1])
    /\ result.body[2].cpu_usage = Some("1.75 cores")
    /\ result.body[2].memory_usage = Some("1.50Ki")

(* Some container of the answer reports a CPU (memory) quantity that does  *)
(* not parse.                                                              *)
MalformedCpu(resp) ==
    \E p \in Range(resp.items) : \E u \in Range(p.containers) :
        ~parse_cpu_metrics(UsageGet(u.cpu)).ok
MalformedMemory(resp) ==
    \E p \in Range(resp.items) : \E u \in Range(p.containers) :
        ~parse_memory_metrics(UsageGet(u.memory)).ok

(* C9 as stated: a malformed quantity degrades that one metric to "Error"  *)
(* on the record (the other metric of the record is not degraded), and     *)
(* the request returns all records.                                        *)
C9_OnlyThatMetricDegraded ==
    (pc = "done" /\ MetricsQueries # << >>) =>
        /\ result.kind = "returned"
        /\ \A i \in DOMAIN result.body :
             LET resp == MetricsQueries[i].resp
                 d == result.body[i]
             IN /\ MalformedCpu(resp) => d.cpu_usage = Some("Error")
                /\ MalformedMemory(resp) => d.memory_usage = Some("Error")
                /\ (MalformedCpu(resp) /\ ~MalformedMemory(resp))
                      => d.memory_usage # Some("Error")
                /\ (MalformedMemory(resp) /\ ~MalformedCpu(resp))
                      => d.cpu_usage # Some("Error")

(* C9 as amended: a malformed quantity degrades both usages of that        *)
(* record to "Error"; the batch goes on and the request returns every      *)
(* record, enriched.                                                       *)
C9_BothMetricsDegraded ==
    /\ \A i \in DOMAIN MetricsQueries :
         (MalformedCpu(MetricsQueries[i].resp)
          \/ MalformedMemory(MetricsQueries[i].resp)) => HasError(deployments[i])
    /\ (pc = "done" /\ MetricsQueries # << >>) =>
          /\ result.kind = "returned"
          /\ Len(result.body) = Len(FetchedFrom(calls))
          /\ Len(MetricsQueries) = Len(result.body)

(* A malformed memory quantity marked the first record; the second record  *)
(* was still enriched with its totals.                                     *)
C9_Witness ==
    /\ RequestReturned
    /\ Len(result.body) = 2
    /\ MalformedMemory(MetricsQueries[1].resp)
    /\ ~MalformedCpu(MetricsQueries[1].resp)
    /\ HasError(result.body[1])
    /\ result.body[2].cpu_usage = Some("250m")

(* The selector the enrichment is to use for a record: its label pairs     *)
(* joined by commas, or app=<name> when it has none.                       *)
SelectorFor(d) ==
    IF d.selector_labels = << >> THEN "app=" \o d.name
    ELSE JoinComma([k \in DOMAIN d.selector_labels |->
                      d.selector_labels[k][1] \o "=" \o d.selector_labels[k][2]])

(* C10: every returned record is enriched: both usages are set, each to    *)
(* the formatted total of its metrics answer, to "N/A" when the gateway    *)
(* returned nothing, or to "Error" when enrichment threw; its metrics      *)
(* query named its own namespace and its selector.                         *)
C10_AlwaysEnriched ==
    RequestReturned =>
        /\ Len(MetricsQueries) = Len(result.body)
        /\ \A i \in DOMAIN result.body :
             LET d == result.body[i]
                 q == MetricsQueries[i]
                 gateway == get_pod_metrics(q.resp)
             IN /\ d.cpu_usage # None /\ d.memory_usage # None
                /\ d.cpu_usage =
                     IF ~gateway.ok THEN Some("Error")
                     ELSE IF DOMAIN gateway.metrics = {} THEN Some("N/A")
                     ELSE Some(format_cpu(total_cpu(gateway.metrics)))
                /\ d.memory_usage =
                     IF ~gateway.ok THEN Some("Error")
                     ELSE IF DOMAIN gateway.metrics = {} THEN Some("N/A")
                     ELSE Some(format_memory(total_memory(gateway.metrics)))
                /\ q.namespace = d.namespace
                /\ q.label_selector = SelectorFor(d)

(* A record with two labels and a record with none were returned, the      *)
(* first with formatted totals, queried by their own selectors.            *)
C10_Witness ==
    /\ RequestReturned
    /\ Len(result.body) = 2
    /\ MetricsQueries[1].label_selector = "app=api,tier=game"
    /\ MetricsQueries[1].namespace = "default"
    /\ MetricsQueries[2].label_selector = "app=db"
    /\ result.body[1].cpu_usage = Some("1.75 cores")
    /\ result.body[1].memory_usage = Some("1.50Ki")
    /\ result.body[2].cpu_usage = Some("N/A")

----------------------------------------------------------------------------
(* The aggregator's output against the list it was given.                  *)

GamesReturned ==
    pc = "done" /\ handler.op = "get_games" /\ result.kind = "returned"

GameInstancesReturned ==
    pc = "done" /\ handler.op = "get_game_instances" /\ result.kind = "returned"

(* The positions of the list that hold a record of the game. *)
RecordsOf(game_name) == { j \in DOMAIN deployments : deployments[j].game = game_name }

(* C11: in every summary get_games returns, component_count is the number  *)
(* of distinct (instance, component) pairs among the game's records,       *)
(* whatever characters the two names hold.                                 *)
C11_ComponentCountIsPairs ==
    GamesReturned =>
        \A i \in DOMAIN result.body :
            result.body[i].component_count =
                Cardinality({ <<deployments[j].instance, deployments[j].component>> :
                                j \in RecordsOf(result.body[i].name) })

RECURSIVE SumFailing(_)
SumFailing(games) ==
    IF games = << >> THEN 0
    ELSE games[1].failing_deployments + SumFailing(Tail(games))

(* C12: get_games returns exactly one summary per distinct game of the     *)
(* list; its instance_count is the number of distinct instance names and   *)
(* its failing_deployments the number of records with status "failed" of   *)
(* that game; the failing_deployments add up to the failed records.        *)
C12_GameSummaries ==
    GamesReturned =>
        /\ { result.body[i].name : i \in DOMAIN result.body }
             = { deployments[j].game : j \in DOMAIN deployments }
        /\ \A i, k \in DOMAIN result.body :
             result.body[i].name = result.body[k].name => i = k
        /\ \A i \in DOMAIN result.body :
             LET mine == RecordsOf(result.body[i].name) IN
             /\ result.body[i].instance_count
                  = Cardinality({ deployments[j].instance : j \in mine })
             /\ result.body[i].failing_deployments
                  = Cardinality({ j \in mine : deployments[j].status = "failed" })
        /\ SumFailing(result.body)
             = Cardinality({ j \in DOMAIN deployments : deployments[j].status = "failed" })

(* Two games: one failed record of bar, two failed records of foo in two   *)
(* instances.                                                              *)
C12_Witness ==
    /\ GamesReturned
    /\ Len(deployments) = 3
    /\ Len(result.body) = 2
    /\ result.body[1].name = "bar" /\ result.body[1].failing_deployments = 1
    /\ result.body[2].name = "foo" /\ result.body[2].failing_deployments = 2
    /\ result.body[2].instance_count = 2

(* How many times a record stands among the components of the groups. *)
Occurrences(groups, record) ==
    Cardinality({ ik \in { <<i, k>> : i \in DOMAIN groups, k \in 1..MaxRecords + 1 } :
                    /\ ik[2] \in DOMAIN groups[ik[1]].components
                    /\ groups[ik[1]].components[ik[2]] = record })

(* C13: get_game_instances partitions the records of the game: the group   *)
(* names are distinct, a group holds records of the requested game and of  *)
(* its own instance only, every record of the list stands in the groups    *)
(* once if it is of the requested game and not at all otherwise, and       *)
(* nothing else stands in the groups; a game with no record gives the      *)
(* empty list.                                                             *)
C13_InstancesPartition ==
    GameInstancesReturned =>
        LET groups == result.body IN
        /\ \A i, k \in DOMAIN groups : groups[i].name = groups[k].name => i = k
        /\ \A i \in DOMAIN groups :
             /\ groups[i].components # << >>
             /\ \A k \in DOMAIN groups[i].components :
                  LET record == groups[i].components[k] IN
                  /\ record.game = handler.game_name
                  /\ record.instance = groups[i].name
                  /\ \E j \in DOMAIN deployments : deployments[j] = record
        /\ \A j \in DOMAIN deployments :
             Occurrences(groups, deployments[j])
               = IF deployments[j].game = handler.game_name THEN 1 ELSE 0
        /\ RecordsOf(handler.game_name) = {} => groups = << >>

(* Three records, one of another game: two groups of foo, one record       *)
(* each, and the record of bar in neither.                                 *)
C13_Witness ==
    /\ GameInstancesReturned
    /\ handler.game_name = "foo"
    /\ Len(deployments) = 3
    /\ Cardinality(RecordsOf("bar")) = 1
    /\ Len(result.body) = 2
    /\ Len(result.body[1].components) = 1
    /\ Len(result.body[2].components) = 1

(* The orders in which a listing can hand over the same records. *)
ListingOrders(n) ==
    { f \in [1..n -> 1..n] : \A i, j \in 1..n : f[i] = f[j] => i = j }

Permuted(listed, f) == [i \in DOMAIN listed |-> listed[f[i]]]

(* What the operation of the request makes of a list. *)
Projection(listed) ==
    IF handler.op = "get_games" THEN get_games(listed)
    ELSE get_game_instances(listed, handler.game_name)

Ascending(names) ==
    \A i \in DOMAIN names : i < Len(names) => Precedes(names[i], names[i + 1])

NonDescending(names) ==
    \A i \in DOMAIN names : i < Len(names) => ~Precedes(names[i + 1], names[i])

(* C14 as stated: both operations return the same sequence for the list    *)
(* and for every permutation of it: the games ascending by name, the       *)
(* groups ascending by instance name, each group's components the same     *)
(* sequence ascending by component name.                                   *)
C14_OrderIndependent ==
    (GamesReturned \/ GameInstancesReturned) =>
        /\ Ascending([i \in DOMAIN result.body |-> result.body[i].name])
        /\ \A f \in ListingOrders(Len(deployments)) :
             result.body = Projection(Permuted(deployments, f))

PositionOf(record) == CHOOSE j \in DOMAIN deployments : deployments[j] = record

(* C14, amended: get_games returns the same sequence, ascending by game    *)
(* name, for every permutation of the list.  get_game_instances returns    *)
(* for every permutation the same groups in the same sequence, ascending   *)
(* by instance name, each holding the same records; a group's components   *)
(* are in non-descending order of component name, records of one component *)
(* name in the order of the list, so that the sequence of a group is the   *)
(* same for every permutation when its component names are distinct.       *)
C14_OrderUpToTies ==
    /\ GamesReturned =>
         /\ Ascending([i \in DOMAIN result.body |-> result.body[i].name])
         /\ \A f \in ListingOrders(Len(deployments)) :
              result.body = get_games(Permuted(deployments, f))
    /\ GameInstancesReturned =>
         /\ Ascending([i \in DOMAIN result.body |-> result.body[i].name])
         /\ \A i \in DOMAIN result.body :
              LET components == result.body[i].components IN
              /\ NonDescending([k \in DOMAIN components |-> components[k].component])
              /\ \A k, l \in DOMAIN components :
                   (k < l /\ components[k].component = components[l].component)
                     => PositionOf(components[k]) < PositionOf(components[l])
         /\ \A f \in ListingOrders(Len(deployments)) :
              LET other == get_game_instances(Permuted(deployments, f),
                                              handler.game_name)
              IN /\ Len(other) = Len(result.body)
                 /\ \A i \in DOMAIN result.body :
                      LET components == result.body[i].components IN
                      /\ other[i].name = result.body[i].name
                      /\ Range(other[i].components) = Range(components)
                      /\ (\A k, l \in DOMAIN components :
                             components[k].component = components[l].component => k = l)
                           => other[i].components = components

(* One instance with three records: the one listed last has the smallest   *)
(* component name and comes first; the two of one component name follow    *)
(* in the order of the list.                                               *)
C14_Witness ==
    /\ GameInstancesReturned
    /\ Len(result.body) = 1
    /\ Len(result.body[1].components) = 3
    /\ result.body[1].components[1].name = "d3"
    /\ result.body[1].components[2].name = "d1"
    /\ result.body[1].components[3].name = "d2"
    /\ result.body[1].components[2].component = result.body[1].components[3].component

----------------------------------------------------------------------------
(* Requests of the aggregation operations and requests in sequence.        *)

AggregationRequest == handler.op \in {"get_games", "get_game_instances"}

(* C15 as stated: get_games and get_game_instances project a list that is  *)
(* already there: a request of either issues no orchestrator call.         *)
C15_NoOrchestratorCall ==
    AggregationRequest => calls = << >>

(* The records get_deployments returns, read off the call log: each        *)
(* fetched record enriched from the answer of its own metrics query.       *)
RecordsFrom(log) ==
    LET fetched == FetchedFrom(log)
        queries == SelectSeq(log, IsMetricsQuery)
    IN [i \in DOMAIN fetched |-> enrich(fetched[i], queries[i].resp)]

(* What get_deployments(ns) returns or raises, read off the call log. *)
OutcomeFrom(ns, log) ==
    IF log[1].resp.kind = "ok" THEN Returned(RecordsFrom(log))
    ELSE IF Truthy(ns) THEN Returned(<< >>)
    ELSE IF log[1].resp.status = 403 THEN Returned(RecordsFrom(log))
    ELSE HTTPException(500)

(* C15, amended: a request of get_games or get_game_instances runs one     *)
(* discovery without a namespace filter, as get_deployments() does, and    *)
(* returns the projection of the list that discovery returned; it issues   *)
(* no orchestrator call of its own.                                        *)
C15_OneDiscoveryThenProjection ==
    AggregationRequest =>
        /\ namespace = None
        /\ pc # "fetch" =>
             /\ calls # << >>
             /\ calls[1].op = "list_deployment_for_all_namespaces"
             /\ \A i \in DOMAIN calls :
                  calls[i].op = "list_deployment_for_all_namespaces" => i = 1
        /\ pc = "done" =>
             LET outcome == OutcomeFrom(None, calls) IN
             /\ outcome.kind = "returned" =>
                  result = Returned(Projection(outcome.body))
             /\ outcome.kind # "returned" => result = outcome

(* get_games listed the cluster, queried the metrics of both records and   *)
(* returned one summary.                                                   *)
C15_Witness ==
    /\ GamesReturned
    /\ Len(calls) = 3
    /\ Len(MetricsQueries) = 2
    /\ Len(result.body) = 1
    /\ result.body[1].name = "foo"

(* The cluster holds exactly the workloads api and db of game foo,         *)
(* instance prod, and the request listed both.                             *)
FooListed ==
    /\ pc = "done"
    /\ result.kind = "returned"
    /\ Range(cluster) = {PoolItem("api"), PoolItem("db")}
    /\ Len(FetchedFrom(calls)) = 2

(* C16: with exactly the workloads api (2 of 2 replicas available) and db  *)
(* (0 of 1 available) of game foo, instance prod, get_games returns the    *)
(* one summary foo with 1 instance, 2 components and 1 failing deployment, *)
(* and get_game_instances("foo") the one group prod with the components    *)
(* api, active, and db, failed, in that order.                             *)
C16_EndToEnd ==
    /\ (FooListed /\ handler.op = "get_games") =>
         result.body = << [name |-> "foo", instance_count |-> 1,
                           component_count |-> 2, failing_deployments |-> 1] >>
    /\ (FooListed /\ handler = Handler("get_game_instances", "foo")) =>
         /\ Len(result.body) = 1
         /\ result.body[1].name = "prod"
         /\ [k \in DOMAIN result.body[1].components |->
               <<result.body[1].components[k].component,
                 result.body[1].components[k].status>>]
              = << <<"api", "active">>, <<"db", "failed">> >>

(* db was listed before api, and get_game_instances("foo") returned the    *)
(* group prod with api first.                                              *)
C16_Witness ==
    /\ FooListed
    /\ handler = Handler("get_game_instances", "foo")
    /\ cluster[1].name = "db"
    /\ result.body[1].components[1].name = "api"
    /\ result.body[1].components[2].status = "failed"

(* C17: a request starts with no record, no call and no result of an       *)
(* earlier request, and what it returns is what its own arguments and the  *)
(* answers to its own orchestrator calls determine, whatever requests were *)
(* answered before it.                                                     *)
C17_ResultFromOwnResponses ==
    /\ pc = "fetch" =>
         /\ deployments = << >>
         /\ calls = << >>
         /\ result = NoResult
    /\ pc = "done" => result = respond(OutcomeFrom(namespace, calls))

(* After a request that returned two entries, a request whose listings     *)
(* found nothing returned the empty list.                                  *)
C17_Witness ==
    /\ served = <<2>>
    /\ pc = "done"
    /\ handler.op = "get_deployments"
    /\ ClusterListingForbidden
    /\ result = Returned(<< >>)

----------------------------------------------------------------------------
(* The parsers against the unit table of the quantity notation.            *)

(* The multiplier each memory suffix stands for: base^exponent. *)
MemoryUnits ==
    << [suffix |-> <<"K", "i">>, base |-> 1024, exponent |-> 1],
       [suffix |-> <<"M", "i">>, base |-> 1024, exponent |-> 2],
       [suffix |-> <<"G", "i">>, base |-> 1024, exponent |-> 3],
       [suffix |-> <<"T", "i">>, base |-> 1024, exponent |-> 4],
       [suffix |-> <<"K">>, base |-> 1000, exponent |-> 1],
       [suffix |-> <<"M">>, base |-> 1000, exponent |-> 2],
       [suffix |-> <<"G">>, base |-> 1000, exponent |-> 3],
       [suffix |-> <<"T">>, base |-> 1000, exponent |-> 4] >>

ParsedAs(fn) == parsed # None /\ Get(parsed).fn = fn

(* C18: _parse_memory_metrics gives value * 1024^1..4 for Ki, Mi, Gi, Ti,  *)
(* value * 1000^1..4 for K, M, G, T, the integer itself without a suffix   *)
(* and 0 for the empty string ("2Gi" is 2147483648, "500M" is 500000000,   *)
(* "1Ti" is 1099511627776); _parse_cpu_metrics gives the value for m, the  *)
(* value / 1000000 for n, value * 1000 without a suffix and 0 for the      *)
(* empty string ("250m" is 250, "1" is 1000, "500000000n" is 500).         *)
C18_UnitConversion ==
    /\ ParsedAs("memory") =>
         LET q == Get(quantity)
             v == Get(parsed).value
         IN /\ q = << >> => (v.ok /\ v.w = Zero)
            /\ IsNumeral(q) => (v.ok /\ v.w = NumeralDigits(q))
            /\ \A u \in Range(MemoryUnits) :
                 LET numeral == DropLast(q, Len(u.suffix)) IN
                 (EndsWith(q, u.suffix) /\ IsNumeral(numeral)) =>
                     /\ v.ok
                     /\ v.w = TimesPower(NumeralDigits(numeral), u.base, u.exponent)
                     /\ (Len(u.suffix) = 2 /\ NumeralDigits(numeral) # Zero) =>
                          v.w # TimesPower(NumeralDigits(numeral), 1000, u.exponent)
            /\ q = Q2Gi => v.w = <<2, 1, 4, 7, 4, 8, 3, 6, 4, 8>>
            /\ q = Q500M => v.w = <<5, 0, 0, 0, 0, 0, 0, 0, 0>>
            /\ q = <<"1", "T", "i">> => v.w = <<1, 0, 9, 9, 5, 1, 1, 6, 2, 7, 7, 7, 6>>
            /\ q = <<"5", "T">> => v.w = <<5, 0, 0, 0, 0, 0, 0, 0, 0, 0, 0, 0, 0>>
    /\ ParsedAs("cpu") =>
         LET q == Get(quantity)
             v == Get(parsed).value
         IN /\ q = << >> => v = Millicores(0, 0)
            /\ IsNumeral(q) => v = Millicores(NumeralValue(q) * 1000, 0)
            /\ (EndsWith(q, <<"m">>) /\ IsNumeral(DropLast(q, 1))) =>
                 v = Millicores(NumeralValue(DropLast(q, 1)), 0)
            /\ (EndsWith(q, <<"n">>) /\ IsNumeral(DropLast(q, 1))) =>
                 /\ v.ok
                 /\ v.f \in 0..(Nano - 1)
                 /\ v.w * Nano + v.f = NumeralValue(DropLast(q, 1))
            /\ q = Q250m => v = Millicores(250, 0)
            /\ q = Q1Core => v = Millicores(1000, 0)
            /\ q = QHalfCoreNano => v = Millicores(500, 0)

(* "2Gi" was parsed as memory: 2 * 1024^3 bytes. *)
C18_Witness ==
    /\ ParsedAs("memory")
    /\ Get(quantity) = Q2Gi
    /\ Get(parsed).value.ok
    /\ Get(parsed).value.w = <<2, 1, 4, 7, 4, 8, 3, 6, 4, 8>>

----------------------------------------------------------------------------
(* Pod logs.                                                               *)

IsInspection(call) == call.op = "read_namespaced_pod"
IsLogCall(call) == call.op = "read_namespaced_pod_log"
Inspections == SelectSeq(calls, IsInspection)
LogCalls == SelectSeq(calls, IsLogCall)

LogsDone == pc = "done" /\ handler.op = "get_pod_logs"

(* The annotations of the pod hold the default-container key. *)
Annotated ==
    /\ pods[1].annotations # None
    /\ DEFAULT_CONTAINER_ANNOTATION \in DOMAIN Get(pods[1].annotations)

(* C19 as stated: an error of any orchestrator call of get_pod_logs, the   *)
(* pod inspection included, makes the request fail; after a successful     *)
(* inspection the log call names the annotated default container if the    *)
(* annotation is present and has no container argument otherwise.          *)
C19_ErrorsSurface ==
    LogsDone =>
        /\ (\E i \in DOMAIN calls : calls[i].resp.kind # "ok")
             => result.kind # "returned"
        /\ (Inspections # << >> /\ Inspections[1].resp.kind = "ok") =>
             /\ LogCalls # << >>
             /\ LogCalls[1].container =
                  IF Annotated
                  THEN Some(Get(pods[1].annotations)[DEFAULT_CONTAINER_ANNOTATION])
                  ELSE None

(* C19, amended: the request makes exactly one log call and fails iff that *)
(* call fails (an ApiException becomes HTTP 500); the pod is inspected iff *)
(* no container name was given, and an error of the inspection is absorbed *)
(* (the log call is then made without a container argument); after a       *)
(* successful inspection the log call names the annotated default          *)
(* container if the annotation is present with a non-empty value and has   *)
(* no container argument otherwise.                                        *)
C19_LogErrorsSurface ==
    LogsDone =>
        /\ Len(LogCalls) = 1
        /\ calls[Len(calls)] = LogCalls[1]
        /\ result.kind = "returned" <=> LogCalls[1].resp.kind = "ok"
        /\ LogCalls[1].resp.kind = "ok" => result.body = LogCalls[1].resp.items
        /\ LogCalls[1].resp.kind = "api_error" => result = HTTPException(500)
        /\ Len(Inspections) = IF LogCalls[1].container = Some("main") THEN 0 ELSE 1
        /\ \A i \in DOMAIN Inspections :
             LogCalls[1].container =
                 IF /\ Inspections[i].resp.kind = "ok"
                    /\ Annotated
                    /\ Get(pods[1].annotations)[DEFAULT_CONTAINER_ANNOTATION] # ""
                 THEN Some(Get(pods[1].annotations)[DEFAULT_CONTAINER_ANNOTATION])
                 ELSE None

(* The inspection was answered 403; the log call, without a container      *)
(* argument, succeeded and the request returned the log text.              *)
C19_Witness ==
    /\ LogsDone
    /\ Inspections # << >>
    /\ Inspections[1].resp = ApiException(403)
    /\ LogCalls[1].container = None
    /\ result = Returned(<<"log text">>)

----------------------------------------------------------------------------
(* The pods of a deployment.                                               *)

PodsListed ==
    /\ pc = "done"
    /\ handler.op = "get_deployment_pods"
    /\ calls[Len(calls)].op = "list_namespaced_pod"
    /\ calls[Len(calls)].resp.kind = "ok"

(* The status the claim gives a pod. *)
ClaimedStatus(pod) ==
    IF pod.phase = None THEN "Unknown"
    ELSE IF /\ pod.phase = Some("Running")
            /\ pod.container_statuses # None
            /\ \E k \in DOMAIN Get(pod.container_statuses) :
                 ~Get(pod.container_statuses)[k]
    THEN "NotReady"
    ELSE Get(pod.phase)

(* C20: whatever pods the selector matches, with or without creation       *)
(* timestamps, get_deployment_pods returns one entry per pod, those with a *)
(* timestamp newest first; an entry's status is the pod's phase, NotReady  *)
(* for a Running pod with a container that is not ready, Unknown without   *)
(* a phase.                                                                *)
C20_PodsNewestFirst ==
    PodsListed =>
        /\ result.kind = "returned"
        /\ Len(result.body) = Len(pods)
        /\ \A i \in DOMAIN pods :
             \E k \in DOMAIN result.body :
                /\ result.body[k].name = pods[i].name
                /\ result.body[k].status = ClaimedStatus(pods[i])
        /\ \A k, l \in DOMAIN result.body :
             (k < l /\ result.body[k].created_at # None
                    /\ result.body[l].created_at # None)
               => ~Precedes(Get(result.body[k].created_at),
                            Get(result.body[l].created_at))

(* The namespace listing of the resolver, when it has been issued. *)
IsResolverListing(call) == call.op = "list_namespace"
ResolverListings == SelectSeq(calls, IsResolverListing)

(* Namespace resolution failed: the namespace listing failed, or a probe   *)
(* failed with a status other than 403.                                    *)
ResolutionFailed ==
    \/ \E i \in DOMAIN ResolverListings :
         ResolverListings[i].resp.kind = "api_error"
    \/ \E i \in DOMAIN Probes : ProbeFailedOther(Probes[i])

IsScaleRead(call) == call.op = "read_namespaced_deployment"
IsPatch(call) == call.op = "patch_namespaced_deployment"
Patches == SelectSeq(calls, IsPatch)

ScaleFailed == pc = "done" /\ result = HTTPException(500)

(* C22: scale_deployment reads the deployment first and patches at most    *)
(* once; a failed read ends the request with HTTP 500 and no patch; after  *)
(* a successful read the one patch sets spec.replicas to the requested     *)
(* count and nothing else; success is acknowledged only after the patch    *)
(* returned without error, and a failed patch ends the request with HTTP   *)
(* 500.                                                                    *)
C22_ReadThenOnePatch ==
    /\ Len(Patches) <= 1
    /\ \A i \in DOMAIN calls :
         IF i = 1 THEN IsScaleRead(calls[i]) ELSE IsPatch(calls[i])
    /\ (calls # << >> /\ calls[1].resp.kind # "ok") =>
           Patches = << >> /\ ScaleFailed
    /\ (calls # << >> /\ calls[1].resp.kind = "ok" /\ pc = "done") =>
           /\ Len(Patches) = 1
           /\ Patches[1].body = Some([spec |-> [replicas |-> replicas]])
    /\ result.kind = "returned" =>
           /\ Len(Patches) = 1
           /\ Patches[1].resp.kind = "ok"
           /\ result.body.status = "success"
    /\ (Patches # << >> /\ Patches[1].resp.kind # "ok") => ScaleFailed
    /\ pc = "done" => result.kind \in {"returned", "HTTPException"}

(* A paused deployment of 2 replicas was read, patched to 0 and the stop   *)
(* acknowledged; the orchestrator holds it with 0 replicas, still paused.  *)
C22_Witness ==
    /\ Len(calls) = 2
    /\ calls[1].resp.kind = "ok"
    /\ calls[1].resp.items[1].spec = [replicas |-> 2, paused |-> TRUE]
    /\ Patches[1].resp.kind = "ok"
    /\ replicas = 0
    /\ result = Returned(scale_acknowledgment(0))
    /\ workload = Some([spec |-> [replicas |-> 0, paused |-> TRUE]])

====
